---- MODULE Spec2Model ----
(***************************************************************************)
(* State-machine model of the fingerprinting agent: the local and remote   *)
(* command transports (utils.py, remote_executor.py), the system detectors *)
(* (system_detector.py, remote_executor.py), the software matchers         *)
(* (software_detector.py, main.py) and the two scan drivers (main.py).     *)
(*                                                                         *)
(* Text is modelled as a sequence of atoms. The atoms " " and "\n" are the *)
(* whitespace characters; every other atom stands for a run of characters  *)
(* without whitespace that the code never looks inside.                    *)
(***************************************************************************)
EXTENDS Integers, Sequences, FiniteSets, TLC

VARIABLES
    mode,               \* "local" or "remote": which scan driver runs
    env,                \* the machine the probes run on
    config,             \* the software-configuration document at config_path
    pc,                 \* position of the scan driver
    remote_executor,    \* RemoteExecutor fields, connected among them
    issued,             \* commands handed to the transport so far, in order
    replies,            \* log of what the transport returned for the commands run
    evidences,          \* SystemDetector.evidences
    system_info,        \* the system_info dictionary under construction
    software_targets,   \* the target list read from the configuration
    idx,                \* index of the next target of the loop over targets
    detected_software,  \* the inventory under construction
    failed_count,       \* detect_all's failure counter
    report              \* what the scan driver returned

vars == <<mode, env, config, pc, remote_executor, issued, replies, evidences, system_info,
          software_targets, idx, detected_software, failed_count, report>>

-----------------------------------------------------------------------------
(* Text primitives (Python str methods on atom sequences)                   *)

SP == " "
NL == "\n"

IsSpace(a) == a \in {SP, NL}

RECURSIVE LStrip(_)
LStrip(t) == IF t # <<>> /\ IsSpace(Head(t)) THEN LStrip(Tail(t)) ELSE t

RECURSIVE RStrip(_)
RStrip(t) ==
    IF t # <<>> /\ IsSpace(t[Len(t)]) THEN RStrip(SubSeq(t, 1, Len(t) - 1)) ELSE t

\* str.strip()
Strip(t) == RStrip(LStrip(t))

\* str.split(sep): the pieces between occurrences of the atom sep, empty
\* pieces kept, always at least one piece
RECURSIVE SplitOn(_, _)
SplitOn(t, sep) ==
    IF \E i \in 1..Len(t) : t[i] = sep
    THEN LET i == CHOOSE k \in 1..Len(t) : t[k] = sep /\ \A j \in 1..(k - 1) : t[j] # sep
         IN  <<SubSeq(t, 1, i - 1)>> \o SplitOn(SubSeq(t, i + 1, Len(t)), sep)
    ELSE <<t>>

\* str.split(sep, 1): at most one split, at the first occurrence of sep
SplitOnce(t, sep) ==
    IF \E i \in 1..Len(t) : t[i] = sep
    THEN LET i == CHOOSE k \in 1..Len(t) : t[k] = sep /\ \A j \in 1..(k - 1) : t[j] # sep
         IN  <<SubSeq(t, 1, i - 1), SubSeq(t, i + 1, Len(t))>>
    ELSE <<t>>

\* str.split(): the runs of atoms between whitespace, no empty piece
RECURSIVE SplitWords(_)
SplitWords(t) ==
    LET s == LStrip(t) IN
    IF s = <<>> THEN <<>>
    ELSE IF \E i \in 1..Len(s) : IsSpace(s[i])
         THEN LET i == CHOOSE k \in 1..Len(s) :
                           IsSpace(s[k]) /\ \A j \in 1..(k - 1) : ~IsSpace(s[j])
              IN  <<SubSeq(s, 1, i - 1)>> \o SplitWords(SubSeq(s, i + 1, Len(s)))
         ELSE <<s>>

\* sep.join(pieces)
RECURSIVE Join(_, _)
Join(pieces, sep) ==
    IF pieces = <<>> THEN <<>>
    ELSE IF Len(pieces) = 1 THEN pieces[1]
    ELSE pieces[1] \o <<sep>> \o Join(Tail(pieces), sep)

\* "tok in text"
Contains(t, tok) == \E i \in 1..Len(t) : t[i] = tok

\* str.replace(tok, by): every occurrence of the atom tok replaced by the text by
RECURSIVE Replace(_, _, _)
Replace(t, tok, by) ==
    IF t = <<>> THEN <<>>
    ELSE (IF Head(t) = tok THEN by ELSE <<Head(t)>>) \o Replace(Tail(t), tok, by)

\* output.strip().split('\n')[0]
FirstLine(t) == SplitOn(Strip(t), NL)[1]

\* [x for x in s if keep(x)]
RECURSIVE SelectLines(_)
SelectLines(ls) ==
    IF ls = <<>> THEN <<>>
    ELSE (IF Head(ls) # <<>> /\ Head(Head(ls)) = "Warning:" THEN <<>> ELSE <<Head(ls)>>)
         \o SelectLines(Tail(ls))

\* dict.get(key, default)
Get(d, key, default) == IF key \in DOMAIN d THEN d[key] ELSE default

-----------------------------------------------------------------------------
(* Command transports                                                       *)

\* what running a process can do: exit with a status and two streams, run
\* past the timeout, or fail to start (no ssh client)
Exit(rc, out, err) == [kind |-> "exit", rc |-> rc, stdout |-> out, stderr |-> err]
TimedOut == [kind |-> "timeout"]
NoClient == [kind |-> "notfound"]

\* utils.execute_command
execute_command(command, raw) ==
    IF raw.kind = "exit"
    THEN LET out == Strip(raw.stdout)
             output == IF out = <<>> /\ raw.stderr # <<>> THEN Strip(raw.stderr) ELSE out
         IN  [success |-> raw.rc = 0, output |-> output]
    ELSE IF raw.kind = "timeout"
    THEN [success |-> FALSE, output |-> <<"Command timed out after 30 seconds">>]
    ELSE [success |-> FALSE, output |-> <<"Error executing command:", SP, raw.kind>>]

\* the argument vector as it would be if the port flag were always emitted
ssh_parts_with_port(host, command, username, port, key_file, timeout) ==
    << <<"ssh">>, <<"-o">>, <<"BatchMode=yes">>, <<"-o">>, <<"StrictHostKeyChecking=no">>,
       <<"-o">>, <<"UserKnownHostsFile=/dev/null">>, <<"-o">>, <<"ConnectTimeout=", timeout>> >>
    \o << <<"-p">>, <<port>> >>
    \o (IF key_file # <<>> THEN << <<"-i">>, key_file >> ELSE <<>>)
    \o (IF username # <<>> THEN << username \o <<"@">> \o host >> ELSE << host >>)
    \o << command >>

\* utils.execute_ssh_command: the argument vector, each argument a text
ssh_parts(host, command, username, port, key_file, timeout) ==
    << <<"ssh">>, <<"-o">>, <<"BatchMode=yes">>, <<"-o">>, <<"StrictHostKeyChecking=no">>,
       <<"-o">>, <<"UserKnownHostsFile=/dev/null">>, <<"-o">>, <<"ConnectTimeout=", timeout>> >>
    \o (IF port # "22" THEN << <<"-p">>, <<port>> >> ELSE <<>>)
    \o (IF key_file # <<>> THEN << <<"-i">>, key_file >> ELSE <<>>)
    \o (IF username # <<>> THEN << username \o <<"@">> \o host >> ELSE << host >>)
    \o << command >>

\* execute_ssh_command as it would be if an expired timeout were reported
\* with the empty output of the process
ssh_result_silent(raw, timeout, ssh_command, out, error_lines) ==
    IF raw.kind = "exit"
    THEN [success |-> raw.rc = 0,
          output |-> IF out = <<>> /\ raw.stderr # <<>> /\ error_lines # <<>>
                     THEN Join(error_lines, NL) ELSE out,
          ssh_cmd |-> ssh_command]
    ELSE [success |-> FALSE, output |-> out, ssh_cmd |-> ssh_command]

\* utils.execute_ssh_command, lines 127-153: the tuple returned for the
\* outcome raw of the ssh process started with the line ssh_command
ssh_result(raw, timeout, ssh_command, out, error_lines) ==
    IF raw.kind = "exit"
    THEN [success |-> raw.rc = 0,
          output |-> IF out = <<>> /\ raw.stderr # <<>> /\ error_lines # <<>>
                     THEN Join(error_lines, NL) ELSE out,
          ssh_cmd |-> ssh_command]
    ELSE IF raw.kind = "timeout"
    THEN [success |-> FALSE, output |-> <<"SSH command timed out after", SP, timeout, SP, "seconds">>,
          ssh_cmd |-> ssh_command]
    ELSE IF raw.kind = "notfound"
    THEN [success |-> FALSE, output |-> <<"SSH client not found. Install OpenSSH.">>,
          ssh_cmd |-> ssh_command]
    ELSE [success |-> FALSE, output |-> <<"SSH error:", SP, raw.kind>>,
          ssh_cmd |-> ssh_command]

\* utils.execute_ssh_command
execute_ssh_command(host, command, username, port, key_file, timeout, raw) ==
    ssh_result(raw, timeout,
               Join(ssh_parts(host, command, username, port, key_file, timeout), SP),
               IF raw.kind = "exit" THEN Strip(raw.stdout) ELSE <<>>,
               IF raw.kind = "exit" THEN SelectLines(SplitOn(Strip(raw.stderr), NL)) ELSE <<>>)

\* RemoteExecutor.__init__
RemoteExecutor(host, username, key_file, port) ==
    [host |-> host, username |-> username, key_file |-> key_file, port |-> port,
     timeout |-> "30", connected |-> FALSE]

\* the connectivity sentinel probe of RemoteExecutor.connect
CmdSentinel == <<"echo \"SSH_TEST_OK\"">>

\* connect as it would be if it reported success whatever the sentinel
\* probe returned
connect_result_always_ok(ex, r) == [executor |-> ex, ok |-> TRUE]

\* RemoteExecutor.connect, lines 59-69: what the reply r to the sentinel
\* probe makes of the executor, and the value returned
connect_result(ex, r) ==
    IF r.success /\ Contains(r.output, "SSH_TEST_OK")
    THEN [executor |-> [ex EXCEPT !.connected = TRUE], ok |-> TRUE]
    ELSE [executor |-> ex, ok |-> FALSE]

\* RemoteExecutor.connect: the executor afterwards and the value returned
connect(ex, raw) ==
    connect_result(ex, execute_ssh_command(ex.host, CmdSentinel, ex.username, ex.port,
                                           ex.key_file, ex.timeout, raw))

\* execute_command as it would be if a probe that fails marked the executor
\* as not connected
execute_result_disconnecting(ex, r, probes) ==
    [executor |-> [ex EXCEPT !.connected = r.success], success |-> r.success,
     output |-> r.output, ssh_cmd |-> r.ssh_cmd, issued |-> probes,
     command |-> probes[Len(probes)]]

\* RemoteExecutor.execute_command, lines 92-101: the tuple returned once the
\* reply r of ssh is known; probes are the commands handed to ssh so far
execute_result(ex, r, probes) ==
    [executor |-> ex, success |-> r.success, output |-> r.output,
     ssh_cmd |-> r.ssh_cmd, issued |-> probes, command |-> probes[Len(probes)]]

\* execute_command as it would be if it went on to run the requested command
\* after a failed connection check
execute_connected_anyway(c, command, raw, probes) ==
    execute_result(c.executor,
                   execute_ssh_command(c.executor.host, command, c.executor.username,
                                       c.executor.port, c.executor.key_file,
                                       c.executor.timeout, raw),
                   probes \o <<command>>)

\* RemoteExecutor.execute_command, lines 85-101, after the connection check c
execute_connected(c, command, raw, probes) ==
    IF ~c.ok
    THEN [executor |-> c.executor, success |-> FALSE,
          output |-> <<"Cannot connect to remote host">>, ssh_cmd |-> <<>>,
          issued |-> probes, command |-> command]
    ELSE execute_result(c.executor,
                        execute_ssh_command(c.executor.host, command, c.executor.username,
                                            c.executor.port, c.executor.key_file,
                                            c.executor.timeout, raw),
                        probes \o <<command>>)

\* RemoteExecutor.execute_command: the executor afterwards, the tuple returned
\* and the commands handed to ssh, in order. sent is what the sentinel probe
\* does if the call has to re-run it, raw what the requested command does.
RemoteExecute(ex, command, sent, raw) ==
    IF ex.connected
    THEN execute_connected([executor |-> ex, ok |-> TRUE], command, raw, <<>>)
    ELSE execute_connected(connect(ex, sent), command, raw, <<CmdSentinel>>)

-----------------------------------------------------------------------------
(* The machine under test: what its commands print                          *)

\* system probes of system_detector.py and remote_executor.py
CmdUnameS == <<"uname -s">>
CmdUnameR == <<"uname -r">>
CmdUnameM == <<"uname -m">>
CmdUnameV == <<"uname -v">>
CmdHostname == <<"hostname">>
CmdSwVers == <<"sw_vers -productVersion">>
CmdSysctlCpu == <<"sysctl -n machdep.cpu.brand_string">>
CmdOsReleaseName == <<"cat /etc/os-release 2>/dev/null | grep '^NAME=' | cut -d'=' -f2 | tr -d '\"'">>
CmdOsReleaseNameRemote == <<"cat /etc/os-release | grep '^NAME=' | cut -d'=' -f2 | tr -d '\"'">>
CmdLsbId == <<"lsb_release -si 2>/dev/null">>
CmdIssue == <<"cat /etc/issue 2>/dev/null | head -n 1">>
CmdOsReleaseVersion == <<"cat /etc/os-release 2>/dev/null | grep '^VERSION_ID=' | cut -d'=' -f2 | tr -d '\"'">>
CmdOsReleaseVersionRemote == <<"cat /etc/os-release | grep '^VERSION_ID=' | cut -d'=' -f2 | tr -d '\"'">>
CmdLsbRelease == <<"lsb_release -sr 2>/dev/null">>
CmdVer == <<"ver">>
CmdCpuinfo == <<"cat /proc/cpuinfo | grep 'model name' | head -n 1 | cut -d':' -f2">>
CmdCpuinfoRemote == <<"cat /proc/cpuinfo | grep 'model name' | head -n 1 | cut -d':' -f2 | xargs">>
CmdLscpu == <<"lscpu | grep 'Model name' | cut -d':' -f2">>
CmdWmicCpu == <<"wmic cpu get name">>
CmdEchoArch == <<"echo %PROCESSOR_ARCHITECTURE%">>
CmdSysteminfo == <<"systeminfo | findstr /B /C:\"OS Name\" /C:\"OS Version\"">>

\* what a healthy machine of the given system prints for a system probe;
\* the empty text where the command does not exist there
HostAnswer(system, cmd) ==
    CASE cmd = CmdUnameS /\ system # "Windows" -> <<system>>
      [] cmd \in {CmdUnameR, CmdUnameV} /\ system # "Windows" -> <<"5.15.0-91-generic">>
      [] cmd = CmdUnameM /\ system # "Windows" -> <<"x86_64">>
      [] cmd = CmdHostname -> <<"host01">>
      [] cmd = CmdSwVers /\ system = "Darwin" -> <<"14.2.1">>
      [] cmd = CmdSysctlCpu /\ system = "Darwin" -> <<"Apple", SP, "M2">>
      [] cmd \in {CmdOsReleaseName, CmdOsReleaseNameRemote} /\ system = "Linux" ->
             <<"Ubuntu", SP, "22.04", SP, "LTS">>
      [] cmd = CmdLsbId /\ system = "Linux" -> <<"SUSE", SP, "LINUX">>
      [] cmd = CmdIssue /\ system = "Linux" -> <<"Ubuntu", SP, "22.04.3", SP, "LTS", SP, "\\n", SP, "\\l">>
      [] cmd \in {CmdOsReleaseVersion, CmdOsReleaseVersionRemote, CmdLsbRelease}
             /\ system = "Linux" -> <<"22.04">>
      [] cmd \in {CmdCpuinfo, CmdCpuinfoRemote, CmdLscpu} /\ system = "Linux" ->
             <<SP, "Intel(R)", SP, "Xeon(R)">>
      [] cmd = CmdVer /\ system = "Windows" -> <<"Microsoft", SP, "Windows", SP, "[Version 10.0.19045]">>
      [] cmd = CmdWmicCpu /\ system = "Windows" -> <<"Name", NL, "Intel(R)", SP, "Core(TM)">>
      [] cmd = CmdEchoArch /\ system = "Windows" -> <<"AMD64">>
      [] cmd = CmdSysteminfo /\ system = "Windows" ->
             <<"OS Name", ":", SP, "Microsoft", SP, "Windows", NL,
               "OS Version", ":", SP, "10.0.19045">>
      [] OTHER -> <<>>

\* ways a local command fails
LocalFailures ==
    {Exit(127, <<>>, <<"sh:", SP, "not", SP, "found", NL>>), Exit(0, <<>>, <<>>), TimedOut}

\* ways a command run through ssh fails
RemoteFailures ==
    {Exit(255, <<>>, <<"Warning:", SP, "Permanently", SP, "added", NL,
                       "Connection", SP, "refused", NL>>),
     Exit(0, <<>>, <<>>), TimedOut}

Printed(answers) == {Exit(0, a \o <<NL>>, <<>>) : a \in answers}

\* what a system probe can do on the machine env: where the system probes
\* are steady the healthy answer; elsewhere every failure, the healthy
\* answer and, for systeminfo, a line that lacks the colon
SystemProbe(cmd, failures) ==
    LET healthy == {HostAnswer(env.system, cmd)} \ {<<>>} IN
    IF env.flaky # "system"
    THEN IF healthy = {} THEN {Exit(127, <<>>, <<"command", SP, "not", SP, "found", NL>>)}
         ELSE Printed(healthy)
    ELSE failures
         \cup Printed(healthy)
         \cup Printed(IF cmd = CmdSysteminfo
                      THEN {<<"OS Name", SP, "Microsoft", SP, "Windows">>} ELSE {})

\* the platform module on the machine env: system(), version(), mac_ver()[0],
\* release(), processor(), machine() and node()
platform ==
    [system |-> env.system,
     version |-> <<"#101-Ubuntu", SP, "SMP">>,
     mac_ver |-> <<"14.2.1">>,
     release |-> <<"5.15.0-91-generic">>,
     processor |-> IF env.system = "Linux" THEN <<>> ELSE <<"i386">>,
     machine |-> <<"x86_64">>,
     node |-> <<"host01">>]

-----------------------------------------------------------------------------
(* system_detector.py: SystemDetector                                       *)

\* utils.Evidence
Evidence(command, raw_output) == [command |-> command, raw_output |-> raw_output]

\* Evidence.to_dict
to_dict(e) == [command_run |-> e.command, raw_output |-> e.raw_output]

\* self.evidences[key] = Evidence(cmd, output)
Record(ev, key, cmd, output) == (key :> Evidence(cmd, output)) @@ ev

is_darwin == platform.system = "Darwin"
is_linux == platform.system = "Linux"
is_windows == platform.system = "Windows"

Good(r) == r.success /\ r.output # <<>>

\* SystemDetector._detect_linux_distro; each result is [ret, ev, issued]
detect_linux_distro(ev, raw1, raw2, raw3) ==
    LET r1 == execute_command(CmdOsReleaseName, raw1)
        r2 == execute_command(CmdLsbId, raw2)
        r3 == execute_command(CmdIssue, raw3)
    IN  IF Good(r1)
        THEN [ret |-> SplitWords(r1.output)[1],
              ev |-> Record(ev, "linux_distro", CmdOsReleaseName, r1.output),
              issued |-> <<CmdOsReleaseName>>]
        ELSE IF Good(r2)
        THEN [ret |-> Strip(r2.output),
              ev |-> Record(ev, "linux_distro", CmdLsbId, r2.output),
              issued |-> <<CmdOsReleaseName, CmdLsbId>>]
        ELSE IF Good(r3)
        THEN [ret |-> SplitWords(r3.output)[1],
              ev |-> Record(ev, "linux_distro", CmdIssue, r3.output),
              issued |-> <<CmdOsReleaseName, CmdLsbId, CmdIssue>>]
        ELSE [ret |-> <<"Linux">>, ev |-> ev,
              issued |-> <<CmdOsReleaseName, CmdLsbId, CmdIssue>>]

\* SystemDetector.detect_os
detect_os(ev, raw1, raw2, raw3) ==
    IF is_darwin THEN [ret |-> <<"macOS">>, ev |-> ev, issued |-> <<>>]
    ELSE IF is_linux THEN detect_linux_distro(ev, raw1, raw2, raw3)
    ELSE IF is_windows THEN [ret |-> <<"Windows">>, ev |-> ev, issued |-> <<>>]
    ELSE [ret |-> <<platform.system>>, ev |-> ev, issued |-> <<>>]

\* a probe followed by a platform-module fallback: the shape shared by
\* _detect_darwin_version, _detect_windows_version, detect_architecture and
\* detect_hostname
ProbeOrFallback(ev, key, cmd, raw, fallback_cmd, fallback) ==
    LET r == execute_command(cmd, raw) IN
    IF Good(r)
    THEN [ret |-> r.output, ev |-> Record(ev, key, cmd, r.output), issued |-> <<cmd>>]
    ELSE [ret |-> fallback, ev |-> Record(ev, key, fallback_cmd, fallback),
          issued |-> <<cmd>>]

\* _detect_linux_version as it would be if it ran every candidate before
\* choosing among their results
detect_linux_version_exhaustive(ev, raw1, raw2, raw3) ==
    LET r1 == execute_command(CmdOsReleaseVersion, raw1)
        r2 == execute_command(CmdLsbRelease, raw2)
        r3 == execute_command(CmdUnameR, raw3)
        all == <<CmdOsReleaseVersion, CmdLsbRelease, CmdUnameR>>
    IN  IF Good(r1)
        THEN [ret |-> r1.output, ev |-> Record(ev, "os_version", CmdOsReleaseVersion, r1.output),
              issued |-> all]
        ELSE IF Good(r2)
        THEN [ret |-> r2.output, ev |-> Record(ev, "os_version", CmdLsbRelease, r2.output),
              issued |-> all]
        ELSE IF Good(r3)
        THEN [ret |-> r3.output, ev |-> Record(ev, "os_version", CmdUnameR, r3.output),
              issued |-> all]
        ELSE [ret |-> platform.version,
              ev |-> Record(ev, "os_version", <<"platform.version()">>, platform.version),
              issued |-> all]

\* SystemDetector._detect_linux_version
detect_linux_version(ev, raw1, raw2, raw3) ==
    LET r1 == execute_command(CmdOsReleaseVersion, raw1)
        r2 == execute_command(CmdLsbRelease, raw2)
        r3 == execute_command(CmdUnameR, raw3)
    IN  IF Good(r1)
        THEN [ret |-> r1.output, ev |-> Record(ev, "os_version", CmdOsReleaseVersion, r1.output),
              issued |-> <<CmdOsReleaseVersion>>]
        ELSE IF Good(r2)
        THEN [ret |-> r2.output, ev |-> Record(ev, "os_version", CmdLsbRelease, r2.output),
              issued |-> <<CmdOsReleaseVersion, CmdLsbRelease>>]
        ELSE IF Good(r3)
        THEN [ret |-> r3.output, ev |-> Record(ev, "os_version", CmdUnameR, r3.output),
              issued |-> <<CmdOsReleaseVersion, CmdLsbRelease, CmdUnameR>>]
        ELSE [ret |-> platform.version,
              ev |-> Record(ev, "os_version", <<"platform.version()">>, platform.version),
              issued |-> <<CmdOsReleaseVersion, CmdLsbRelease, CmdUnameR>>]

\* SystemDetector.detect_os_version
detect_os_version(ev, raw1, raw2, raw3) ==
    IF is_darwin
    THEN ProbeOrFallback(ev, "os_version", CmdSwVers, raw1,
                         <<"platform.mac_ver()">>, platform.mac_ver)
    ELSE IF is_linux THEN detect_linux_version(ev, raw1, raw2, raw3)
    ELSE IF is_windows
    THEN ProbeOrFallback(ev, "os_version", CmdVer, raw1,
                         <<"platform.version()">>, platform.version)
    ELSE [ret |-> platform.version,
          ev |-> Record(ev, "os_version", <<"platform.version()">>, platform.version),
          issued |-> <<>>]

\* SystemDetector.detect_kernel_version
detect_kernel_version(ev, raw) ==
    IF is_darwin \/ is_linux
    THEN ProbeOrFallback(ev, "kernel", CmdUnameR, raw, <<"platform.release()">>, platform.release)
    ELSE IF is_windows
    THEN ProbeOrFallback(ev, "kernel", CmdVer, raw, <<"platform.release()">>, platform.release)
    ELSE [ret |-> platform.release,
          ev |-> Record(ev, "kernel", <<"platform.release()">>, platform.release),
          issued |-> <<>>]

\* processor if processor else "Unknown", with its evidence
ProcessorFallback(ev, cmds) ==
    [ret |-> IF platform.processor # <<>> THEN platform.processor ELSE <<"Unknown">>,
     ev |-> Record(ev, "cpu", <<"platform.processor()">>, platform.processor),
     issued |-> cmds]

\* SystemDetector._detect_darwin_cpu
detect_darwin_cpu(ev, raw) ==
    LET r == execute_command(CmdSysctlCpu, raw) IN
    IF Good(r)
    THEN [ret |-> r.output, ev |-> Record(ev, "cpu", CmdSysctlCpu, r.output),
          issued |-> <<CmdSysctlCpu>>]
    ELSE ProcessorFallback(ev, <<CmdSysctlCpu>>)

\* SystemDetector._detect_linux_cpu
detect_linux_cpu(ev, raw1, raw2) ==
    LET r1 == execute_command(CmdCpuinfo, raw1)
        r2 == execute_command(CmdLscpu, raw2)
    IN  IF Good(r1)
        THEN [ret |-> Strip(r1.output), ev |-> Record(ev, "cpu", CmdCpuinfo, r1.output),
              issued |-> <<CmdCpuinfo>>]
        ELSE IF Good(r2)
        THEN [ret |-> Strip(r2.output), ev |-> Record(ev, "cpu", CmdLscpu, r2.output),
              issued |-> <<CmdCpuinfo, CmdLscpu>>]
        ELSE ProcessorFallback(ev, <<CmdCpuinfo, CmdLscpu>>)

\* SystemDetector._detect_windows_cpu
detect_windows_cpu(ev, raw) ==
    LET r == execute_command(CmdWmicCpu, raw)
        lines == SplitOn(r.output, NL)
    IN  IF Good(r) /\ Len(lines) > 1
        THEN [ret |-> Strip(lines[2]), ev |-> Record(ev, "cpu", CmdWmicCpu, r.output),
              issued |-> <<CmdWmicCpu>>]
        ELSE ProcessorFallback(ev, <<CmdWmicCpu>>)

\* SystemDetector.detect_cpu
detect_cpu(ev, raw1, raw2) ==
    IF is_darwin THEN detect_darwin_cpu(ev, raw1)
    ELSE IF is_linux THEN detect_linux_cpu(ev, raw1, raw2)
    ELSE IF is_windows THEN detect_windows_cpu(ev, raw1)
    ELSE ProcessorFallback(ev, <<>>)

\* SystemDetector.detect_architecture
detect_architecture(ev, raw) ==
    ProbeOrFallback(ev, "architecture", IF is_windows THEN CmdEchoArch ELSE CmdUnameM, raw,
                    <<"platform.machine()">>, platform.machine)

\* SystemDetector.detect_hostname
detect_hostname(ev, raw) ==
    ProbeOrFallback(ev, "hostname", CmdHostname, raw, <<"platform.node()">>, platform.node)

-----------------------------------------------------------------------------
(* remote_executor.py: RemoteFingerprinter, system information              *)

\* a dictionary with no key
EmptyDict == [k \in {} |-> <<>>]

\* "not d" for a dictionary d, or for None
IsEmpty(d) == DOMAIN d = {}

Unknown == <<"Unknown">>

\* the system_info dictionary RemoteFingerprinter.detect_system_info starts from
UnknownSystemInfo ==
    [os |-> Unknown, version |-> Unknown, kernel |-> Unknown, cpu |-> Unknown,
     architecture |-> Unknown, hostname |-> Unknown, evidence |-> EmptyDict]

\* a command and the (success, output) it returned to its caller
Reply(command, r) == [command |-> command, success |-> r.success, output |-> r.output]

\* The remote detectors thread a state st = [executor, info, issued, replies,
\* raised]: the executor, the system_info dictionary, the commands handed to
\* ssh by this call so far, what execute_command returned for each command
\* requested, and whether an exception is propagating.
RemoteState(ex, info) ==
    [executor |-> ex, info |-> info, issued |-> <<>>, replies |-> <<>>, raised |-> FALSE]

\* self.executor.execute_command(cmd) from the state st
Call(st, cmd, sent, raw) == RemoteExecute(st.executor, cmd, sent, raw)

After(st, r, info) ==
    [executor |-> r.executor, info |-> info, issued |-> st.issued \o r.issued,
     replies |-> Append(st.replies, Reply(r.command, r)), raised |-> st.raised]

SetFact(info, field, key, entry, value) ==
    [info EXCEPT ![field] = value, !.evidence = (key :> entry) @@ @]

\* an evidence entry of the remote system detectors
remote_evidence(r, cmd) ==
    [ssh_command |-> r.ssh_cmd, remote_command |-> cmd, raw_output |-> r.output]

\* the pattern of remote_executor.py lines 172-199, 208-225, 269-276, 283-290:
\* the output of a probe is the fact when the probe succeeds with output;
\* r is the reply to the probe
fact_of(st, field, cmd, r) ==
    IF r.success /\ r.output # <<>>
    THEN After(st, r, SetFact(st.info, field, field, remote_evidence(r, cmd), r.output))
    ELSE After(st, r, st.info)

RemoteFact(st, field, cmd, sent, raw) == fact_of(st, field, cmd, Call(st, cmd, sent, raw))

\* RemoteFingerprinter._detect_darwin_system
detect_darwin_system(st, sents, raws) ==
    LET st0 == [st EXCEPT !.info.os = <<"macOS">>]
        st1 == RemoteFact(st0, "version", CmdSwVers, sents[1], raws[1])
    IN  RemoteFact(st1, "cpu", CmdSysctlCpu, sents[2], raws[2])

\* the candidate commands of _detect_linux_system
dist_cmds ==
    << [cmd |-> CmdOsReleaseNameRemote, method |-> "os-release"],
       [cmd |-> CmdLsbId, method |-> "lsb_release"] >>

version_cmds ==
    << [cmd |-> CmdOsReleaseVersionRemote, method |-> "os-release"],
       [cmd |-> CmdLsbRelease, method |-> "lsb_release"] >>

\* the evidence entry of a candidate command
candidate_evidence(r, c) ==
    [ssh_command |-> r.ssh_cmd, remote_command |-> c.cmd, raw_output |-> r.output,
     method |-> c.method]

\* the distribution-name loop of _detect_linux_system (lines 237-247), from
\* the k-th candidate
RECURSIVE linux_dist_name(_, _, _, _)

\* lines 239-247: dist_name is the reply to the k-th candidate
dist_name_reply(st, k, sents, raws, dist_name) ==
    IF dist_name.success /\ dist_name.output # <<>>
    THEN After(st, dist_name,
               SetFact(st.info, "os", "os_name", candidate_evidence(dist_name, dist_cmds[k]),
                       Strip(dist_name.output)))
    ELSE linux_dist_name(After(st, dist_name, st.info), k + 1, sents, raws)

linux_dist_name(st, k, sents, raws) ==
    IF k > Len(dist_cmds) THEN st
    ELSE dist_name_reply(st, k, sents, raws, Call(st, dist_cmds[k].cmd, sents[k], raws[k]))

\* the version loop of _detect_linux_system (lines 255-265), from the k-th
\* candidate
RECURSIVE linux_version(_, _, _, _)

\* lines 257-265: version is the reply to the k-th candidate
version_reply(st, k, sents, raws, version) ==
    IF version.success /\ version.output # <<>>
    THEN After(st, version,
               SetFact(st.info, "version", "version",
                       candidate_evidence(version, version_cmds[k]), version.output))
    ELSE linux_version(After(st, version, st.info), k + 1, sents, raws)

linux_version(st, k, sents, raws) ==
    IF k > Len(version_cmds) THEN st
    ELSE version_reply(st, k, sents, raws, Call(st, version_cmds[k].cmd, sents[k], raws[k]))

\* RemoteFingerprinter._detect_linux_system
detect_linux_system(st, sents, raws) ==
    LET st0 == [st EXCEPT !.info.os = <<"Linux">>]
        st1 == linux_dist_name(st0, 1, SubSeq(sents, 1, 2), SubSeq(raws, 1, 2))
        st2 == linux_version(st1, 1, SubSeq(sents, 3, 4), SubSeq(raws, 3, 4))
    IN  RemoteFact(st2, "cpu", CmdCpuinfoRemote, sents[5], raws[5])

\* RemoteFingerprinter._detect_generic_unix_system
detect_generic_unix_system(st, sent, raw) ==
    RemoteFact([st EXCEPT !.info.os = <<"Unix">>], "version", CmdUnameV, sent, raw)

\* line.split(':', 1)[1].strip(): IndexError when the line has no colon
AfterColon(line) ==
    LET parts == SplitOnce(line, ":") IN
    IF Len(parts) < 2 THEN [raised |-> TRUE, value |-> <<>>]
    ELSE [raised |-> FALSE, value |-> Strip(parts[2])]

\* the loop over the lines of the systeminfo output (lines 298-302)
RECURSIVE scan_windows_lines(_, _)
scan_windows_lines(info, lines) ==
    IF lines = <<>> THEN [raised |-> FALSE, info |-> info]
    ELSE LET line == Head(lines)
             v == AfterColon(line)
         IN  IF Contains(line, "OS Name")
             THEN IF v.raised THEN [raised |-> TRUE, info |-> info]
                  ELSE scan_windows_lines([info EXCEPT !.os = v.value], Tail(lines))
             ELSE IF Contains(line, "OS Version")
             THEN IF v.raised THEN [raised |-> TRUE, info |-> info]
                  ELSE scan_windows_lines([info EXCEPT !.version = v.value], Tail(lines))
             ELSE scan_windows_lines(info, Tail(lines))

\* lines 296-308: the lines of the output have been scanned
windows_scanned(st, r, scanned) ==
    IF scanned.raised
    THEN [After(st, r, scanned.info) EXCEPT !.raised = TRUE]
    ELSE After(st, r, [scanned.info EXCEPT !.evidence =
                          ("os_info" :> remote_evidence(r, <<"systeminfo">>)) @@ @])

\* lines 295-308: r is the reply to the systeminfo probe
windows_reply(st, r) ==
    IF r.success /\ r.output # <<>>
    THEN windows_scanned(st, r, scan_windows_lines(st.info, SplitOn(r.output, NL)))
    ELSE After(st, r, st.info)

\* RemoteFingerprinter._detect_windows_system
detect_windows_system(st, sent, raw) ==
    windows_reply(st, Call(st, CmdSysteminfo, sent, raw))

\* str.lower() of a kernel name
Lower(name) ==
    CASE name = <<"Darwin">> -> <<"darwin">>
      [] name = <<"Linux">> -> <<"linux">>
      [] name = <<"Windows">> -> <<"windows">>
      [] name = <<"FreeBSD">> -> <<"freebsd">>
      [] OTHER -> name

\* lines 150-169: r is the reply to the probe for the OS type
os_type_reply(st, r) ==
    IF r.success /\ r.output # <<>>
    THEN [st |-> After(st, r, [st.info EXCEPT !.evidence =
                                  ("os_type" :> remote_evidence(r, CmdUnameS)) @@ @]),
          route |-> IF Lower(Strip(r.output)) = <<"darwin">> THEN "darwin"
                    ELSE IF Lower(Strip(r.output)) = <<"linux">> THEN "linux"
                    ELSE "unix"]
    ELSE [st |-> After(st, r, st.info), route |-> "windows"]

\* RemoteFingerprinter.detect_system_info, lines 139-169: the probe for the
\* OS type; route is the detector the result selects
detect_os_type(ex, sent, raw) ==
    os_type_reply(RemoteState(ex, UnknownSystemInfo),
                  Call(RemoteState(ex, UnknownSystemInfo), CmdUnameS, sent, raw))

\* RemoteFingerprinter.detect_system_info, lines 171-201: kernel,
\* architecture and hostname
detect_common(st, sents, raws) ==
    LET st1 == RemoteFact(st, "kernel", CmdUnameR, sents[1], raws[1])
        st2 == RemoteFact(st1, "architecture", CmdUnameM, sents[2], raws[2])
    IN  RemoteFact(st2, "hostname", CmdHostname, sents[3], raws[3])

-----------------------------------------------------------------------------
(* The software configuration                                               *)

\* a JSON object (a Python dict) of the software_targets list
JObject(fields) == [json |-> "object", fields |-> fields]

\* get_platform_key as it would be without the default of its last branch
get_platform_key_lowered == Lower(<<platform.system>>)[1]

\* utils.get_platform_key
get_platform_key ==
    LET system == Lower(<<platform.system>>) IN
    IF system = <<"darwin">> THEN "darwin"
    ELSE IF system = <<"linux">> THEN "linux"
    ELSE IF system = <<"windows">> THEN "windows"
    ELSE "linux"

\* utils.ProductFamily: member name -> value
ProductFamily ==
    ("IDE" :> "IDE") @@ ("BROWSER" :> "Browser") @@ ("VIRTUALIZATION" :> "Virtualization")
    @@ ("COMMUNICATION" :> "Communication")
    @@ ("PROGRAMMING_LANGUAGE" :> "Programming Language")
    @@ ("VERSION_CONTROL" :> "Version Control") @@ ("DATABASE" :> "Database")
    @@ ("RUNTIME" :> "Runtime") @@ ("CONTAINER" :> "Container")
    @@ ("CLOUD_TOOLS" :> "Cloud Tools") @@ ("SECURITY" :> "Security")
    @@ ("MONITORING" :> "Monitoring") @@ ("OTHER" :> "Other") @@ ("UNKNOWN" :> "Unknown")

ProductFamilyValues == {ProductFamily[m] : m \in DOMAIN ProductFamily}

\* family_mapping of SoftwareDetector._normalize_product_family: key -> member name
family_mapping ==
    ("IDE" :> "IDE") @@ ("Browser" :> "BROWSER") @@ ("Virtualization" :> "VIRTUALIZATION")
    @@ ("Communication" :> "COMMUNICATION")
    @@ ("Programming Language" :> "PROGRAMMING_LANGUAGE")
    @@ ("Version Control" :> "VERSION_CONTROL") @@ ("Database" :> "DATABASE")
    @@ ("Runtime" :> "RUNTIME") @@ ("Container" :> "CONTAINER")
    @@ ("Cloud Tools" :> "CLOUD_TOOLS") @@ ("Security" :> "SECURITY")
    @@ ("Monitoring" :> "MONITORING")

\* _normalize_product_family as it would be if it kept the configured string
normalize_keeping(family) == family

\* SoftwareDetector._normalize_product_family
normalize_product_family(family) ==
    IF family \in DOMAIN family_mapping
    THEN ProductFamily[family_mapping[family]]
    ELSE IF family \in ProductFamilyValues THEN family
    ELSE ProductFamily["OTHER"]

-----------------------------------------------------------------------------
(* software_detector.py: version extraction                                 *)

\* \w: the atoms below are not word characters; every other atom stands for
\* a run that starts and ends with a word character
IsWord(a) == a \notin {SP, NL, ".", "/", "-", ":", ","}

\* the last index of the run of digit atoms that starts at i; i - 1 if none
RECURSIVE DigitRunEnd(_, _)
DigitRunEnd(t, i) ==
    IF i <= Len(t) /\ t[i] \in {"0", "1", "2", "3", "4", "5", "6", "7", "8", "9"}
    THEN DigitRunEnd(t, i + 1) ELSE i - 1

\* the end of the match of \b(\d+\.\d+\.\d+(?:\.\d+)?)\b that starts at i; 0 if none
VersionMatchEnd(t, i) ==
    LET e1 == DigitRunEnd(t, i)
        dot1 == e1 >= i /\ e1 + 1 <= Len(t) /\ t[e1 + 1] = "."
        e2 == DigitRunEnd(t, e1 + 2)
        dot2 == dot1 /\ e2 >= e1 + 2 /\ e2 + 1 <= Len(t) /\ t[e2 + 1] = "."
        e3 == DigitRunEnd(t, e2 + 2)
        three == dot2 /\ e3 >= e2 + 2
        e4 == DigitRunEnd(t, e3 + 2)
        four == three /\ e3 + 1 <= Len(t) /\ t[e3 + 1] = "." /\ e4 >= e3 + 2
    IN  IF ~(i = 1 \/ ~IsWord(t[i - 1])) THEN 0
        ELSE IF four /\ (e4 = Len(t) \/ ~IsWord(t[e4 + 1])) THEN e4
        ELSE IF three /\ (e3 = Len(t) \/ ~IsWord(t[e3 + 1])) THEN e3
        ELSE 0

\* re.search(version_pattern, detection_output): group 1 of the leftmost
\* match, looked for from position i on; the empty text if there is none
RECURSIVE search_from(_, _)

match_at(t, i, e) == IF e > 0 THEN SubSeq(t, i, e) ELSE search_from(t, i + 1)

search_from(t, i) == IF i > Len(t) THEN <<>> ELSE match_at(t, i, VersionMatchEnd(t, i))

search_version(t) == search_from(t, 1)

\* the placeholder of a version command
AppPath == "{app_path}"

\* the substitution as it would be if it used the whole detection output
substitute_whole_output(version_cmd, detection_output) ==
    Replace(version_cmd, AppPath, detection_output)

\* lines 161-163 and remote_executor.py lines 339-341: the version command
\* with the placeholder replaced by the first line of the detection output
substitute_app_path(version_cmd, detection_output) ==
    IF Contains(version_cmd, AppPath)
    THEN Replace(version_cmd, AppPath, FirstLine(detection_output))
    ELSE version_cmd

\* _extract_version as it would be if it returned the whole output of the
\* version command
version_of_whole_output(r, cmd) ==
    [ret |-> IF r.success /\ r.output # <<>> THEN r.output ELSE <<>>,
     issued |-> <<cmd>>, replies |-> <<Reply(cmd, r)>>]

\* lines 164-167: what _extract_version returns for the reply r of the
\* version command cmd
version_of(r, cmd) ==
    IF r.success /\ r.output # <<>>
    THEN [ret |-> FirstLine(r.output), issued |-> <<cmd>>, replies |-> <<Reply(cmd, r)>>]
    ELSE [ret |-> <<>>, issued |-> <<cmd>>, replies |-> <<Reply(cmd, r)>>]

\* lines 159-167: the version command is run
run_version_command(cmd, raw) == version_of(execute_command(cmd, raw), cmd)

\* _extract_version as it would be if a version command that fails fell back
\* to the pattern match of the detection output
extract_version_falling_back(platform_config, detection_output, raw) ==
    LET v == run_version_command(
                 substitute_app_path(Get(platform_config, "version_command", <<>>),
                                     detection_output), raw)
    IN  IF Get(platform_config, "version_command", <<>>) = <<>>
        THEN [ret |-> search_version(detection_output), issued |-> <<>>, replies |-> <<>>]
        ELSE IF v.ret = <<>> THEN [v EXCEPT !.ret = search_version(detection_output)]
        ELSE v

\* SoftwareDetector._extract_version: [ret, issued]; ret is the empty text
\* for None
extract_version(platform_config, detection_output, raw) ==
    IF Get(platform_config, "version_command", <<>>) = <<>>
    THEN [ret |-> search_version(detection_output), issued |-> <<>>, replies |-> <<>>]
    ELSE run_version_command(
             substitute_app_path(Get(platform_config, "version_command", <<>>),
                                 detection_output), raw)

-----------------------------------------------------------------------------
(* software_detector.py: SoftwareDetector.detect_software                   *)

\* SoftwareDetector._get_architecture
get_architecture == platform.machine

\* lines 118-128: the software_info dictionary
software_info(fields, version, output, detection_cmd) ==
    [productName |-> Get(fields, "name", "Unknown"),
     versionNumber |-> IF version # <<>> THEN version ELSE Unknown,
     architecture |-> get_architecture,
     productFamily |-> normalize_product_family(Get(fields, "family", "Unknown")),
     vendor |-> Get(fields, "vendor", "Unknown"),
     installPath |-> FirstLine(output),
     evidence |-> ("detection" :> to_dict(Evidence(detection_cmd, output)))]

\* the matcher as it would be if a product whose version command gives no
\* version were not reported
found_software_requiring_version(fields, detection_cmd, r, v) ==
    IF v.issued # <<>> /\ v.ret = <<>>
    THEN [kind |-> "None", issued |-> <<detection_cmd>> \o v.issued,
          replies |-> <<Reply(detection_cmd, r)>> \o v.replies]
    ELSE [kind |-> "record", issued |-> <<detection_cmd>> \o v.issued,
          replies |-> <<Reply(detection_cmd, r)>> \o v.replies,
          info |-> software_info(fields, v.ret, r.output, detection_cmd)]

\* lines 108-134: the software was found by detection_cmd and v is what
\* _extract_version returned
found_software(fields, detection_cmd, r, v) ==
    [kind |-> "record", issued |-> <<detection_cmd>> \o v.issued,
     replies |-> <<Reply(detection_cmd, r)>> \o v.replies,
     info |-> software_info(fields, v.ret, r.output, detection_cmd)]

\* the matcher as it would be if a detection command that fails raised out
\* of detect_software
detected_by_raising(fields, platform_config, detection_cmd, r, rawV) ==
    IF ~r.success \/ r.output = <<>>
    THEN [kind |-> "raise", issued |-> <<detection_cmd>>,
          replies |-> <<Reply(detection_cmd, r)>>]
    ELSE found_software(fields, detection_cmd, r,
                        extract_version(platform_config, r.output, rawV))

\* lines 100-134: r is the reply to the detection command
detected_by(fields, platform_config, detection_cmd, r, rawV) ==
    IF ~r.success \/ r.output = <<>>
    THEN [kind |-> "None", issued |-> <<detection_cmd>>,
          replies |-> <<Reply(detection_cmd, r)>>]
    ELSE found_software(fields, detection_cmd, r,
                        extract_version(platform_config, r.output, rawV))

\* detect_software as it would be if a target without an entry for the
\* platform counted as a failed detection
detect_on_platform_failing(fields, platform_config, rawD, rawV) ==
    IF IsEmpty(platform_config) THEN [kind |-> "raise", issued |-> <<>>, replies |-> <<>>]
    ELSE IF Get(platform_config, "command", <<>>) = <<>>
    THEN [kind |-> "None", issued |-> <<>>, replies |-> <<>>]
    ELSE detected_by(fields, platform_config, Get(platform_config, "command", <<>>),
                     execute_command(Get(platform_config, "command", <<>>), rawD), rawV)

\* lines 88-134: platform_config is the target's entry for this platform
detect_on_platform(fields, platform_config, rawD, rawV) ==
    IF IsEmpty(platform_config) THEN [kind |-> "None", issued |-> <<>>, replies |-> <<>>]
    ELSE IF Get(platform_config, "command", <<>>) = <<>>
    THEN [kind |-> "None", issued |-> <<>>, replies |-> <<>>]
    ELSE detected_by(fields, platform_config, Get(platform_config, "command", <<>>),
                     execute_command(Get(platform_config, "command", <<>>), rawD), rawV)

\* SoftwareDetector.detect_software: kind is "raise" (the exception of line
\* 84 leaves the method), "None" or "record"
detect_software(target, platform_key, rawD, rawV) ==
    IF target.json # "object" THEN [kind |-> "raise", issued |-> <<>>, replies |-> <<>>]
    ELSE detect_on_platform(target.fields,
                            Get(Get(target.fields, "detection", EmptyDict),
                                platform_key, EmptyDict),
                            rawD, rawV)

\* the loop of detect_all as it would be if a target that is not detected
\* ended the loop the way an exception of the handler does
iteration_result_stopping(detected, failed, target, d) ==
    [detected |-> IF d.kind = "record" THEN Append(detected, d.info) ELSE detected,
     failed |-> failed, issued |-> d.issued, replies |-> d.replies,
     raised |-> d.kind # "record"]

\* the loop of detect_all as it would be if it put a new record at the head
\* of the inventory
iteration_result_prepending(detected, failed, target, d) ==
    IF d.kind = "raise"
    THEN [detected |-> detected, failed |-> failed + 1, issued |-> d.issued,
          replies |-> d.replies, raised |-> target.json # "object"]
    ELSE [detected |-> IF d.kind = "record" THEN <<d.info>> \o detected ELSE detected,
          failed |-> failed, issued |-> d.issued, replies |-> d.replies, raised |-> FALSE]

\* lines 56-65: what the loop of detect_all does with the outcome d of
\* detect_software
iteration_result(detected, failed, target, d) ==
    IF d.kind = "raise"
    THEN [detected |-> detected, failed |-> failed + 1, issued |-> d.issued,
          replies |-> d.replies, raised |-> target.json # "object"]
    ELSE [detected |-> IF d.kind = "record" THEN Append(detected, d.info) ELSE detected,
          failed |-> failed, issued |-> d.issued, replies |-> d.replies, raised |-> FALSE]

\* one iteration of the loop of SoftwareDetector.detect_all (lines 55-65):
\* the inventory and the failure count afterwards, and whether the handler's
\* own target.get raised, which ends detect_all with that exception
detect_all_iteration(detected, failed, target, platform_key, rawD, rawV) ==
    iteration_result(detected, failed, target,
                     detect_software(target, platform_key, rawD, rawV))

-----------------------------------------------------------------------------
(* remote_executor.py and main.py: the remote software matcher              *)

\* an entry of the evidence dictionary of RemoteFingerprinter.detect_software
command_evidence(r, cmd) ==
    [ssh_command |-> r.ssh_cmd, remote_command |-> cmd, raw_output |-> r.output,
     success |-> r.success]

\* remote_executor.py lines 343-355: v is the reply to the version command cmd
with_version(st1, r, detection_cmd, cmd, v) ==
    [st |-> After(st1, v, st1.info), found |-> TRUE, output |-> r.output,
     version |-> IF v.success /\ v.output # <<>> THEN Strip(v.output) ELSE <<>>,
     evidence |-> ("version" :> command_evidence(v, cmd))
                  @@ ("detection" :> command_evidence(r, detection_cmd))]

\* remote_executor.py line 343: the version command cmd is run
run_remote_version(st1, r, detection_cmd, cmd, sent, raw) ==
    with_version(st1, r, detection_cmd, cmd, Call(st1, cmd, sent, raw))

\* remote_executor.py lines 326-355: r is the reply to the detection command
after_detection(st1, r, detection_cmd, version_cmd, sent, raw) ==
    IF ~r.success \/ r.output = <<>>
    THEN [st |-> st1, found |-> FALSE, output |-> <<>>, version |-> <<>>,
          evidence |-> ("detection" :> command_evidence(r, detection_cmd))]
    ELSE IF version_cmd = <<>>
    THEN [st |-> st1, found |-> TRUE, output |-> r.output, version |-> <<>>,
          evidence |-> ("detection" :> command_evidence(r, detection_cmd))]
    ELSE run_remote_version(st1, r, detection_cmd,
                            substitute_app_path(version_cmd, r.output), sent, raw)

\* remote_executor.py line 324: the detection command has been run
detection_reply(st, r, detection_cmd, version_cmd, sent, raw) ==
    after_detection(After(st, r, st.info), r, detection_cmd, version_cmd, sent, raw)

\* RemoteFingerprinter.detect_software; version is the empty text for None
remote_detect_software(st, detection_cmd, version_cmd, sents, raws) ==
    detection_reply(st, Call(st, detection_cmd, sents[1], raws[1]),
                    detection_cmd, version_cmd, sents[2], raws[2])

RemotePlatforms == <<"darwin", "linux", "windows">>

\* the record of main.py lines 198-210 as it would be if the matcher kept the
\* version it found last and reused it for the targets that follow
append_software_info_sharing(st, fields, d, a) ==
    After(st, a, Append(st.info,
        [productName |-> Get(fields, "name", "Unknown"),
         versionNumber |-> IF st.info # <<>> THEN st.info[Len(st.info)].versionNumber
                           ELSE IF d.version # <<>> THEN d.version ELSE Unknown,
         architecture |-> IF a.success THEN Strip(a.output) ELSE Unknown,
         productFamily |-> Get(fields, "family", "Unknown"),
         vendor |-> Get(fields, "vendor", "Unknown"),
         installPath |-> FirstLine(d.output),
         evidence |-> d.evidence]))

\* main.py lines 198-210: the software_info dictionary appended to the
\* inventory, a being the reply to the architecture probe; st.info is the
\* inventory
append_software_info(st, fields, d, a) ==
    After(st, a, Append(st.info,
        [productName |-> Get(fields, "name", "Unknown"),
         versionNumber |-> IF d.version # <<>> THEN d.version ELSE Unknown,
         architecture |-> IF a.success THEN Strip(a.output) ELSE Unknown,
         productFamily |-> Get(fields, "family", "Unknown"),
         vendor |-> Get(fields, "vendor", "Unknown"),
         installPath |-> FirstLine(d.output),
         evidence |-> d.evidence]))

\* main.py lines 196-210: the architecture probe and the record
remote_software_info(st, fields, d, sent, raw) ==
    append_software_info(st, fields, d, Call(st, CmdUnameM, sent, raw))

\* the loop over the platform keys (main.py lines 179-212), from the k-th key
RECURSIVE remote_platform_loop(_, _, _, _, _)

\* the loop over the platform keys as it would be without the break of
\* line 212
platform_result_continuing(d, fields, k, sents, raws) ==
    IF d.found
    THEN remote_platform_loop(remote_software_info(d.st, fields, d, sents[7], raws[7]),
                              fields, k + 1, sents, raws)
    ELSE remote_platform_loop(d.st, fields, k + 1, sents, raws)

\* main.py lines 194-212: d is what detect_software returned for the k-th key
platform_result(d, fields, k, sents, raws) ==
    IF d.found
    THEN remote_software_info(d.st, fields, d, sents[7], raws[7])
    ELSE remote_platform_loop(d.st, fields, k + 1, sents, raws)

\* main.py lines 180-212: one platform key, platform_config its entry
try_platform(st, fields, platform_config, k, sents, raws) ==
    IF IsEmpty(platform_config) \/ Get(platform_config, "command", <<>>) = <<>>
    THEN remote_platform_loop(st, fields, k + 1, sents, raws)
    ELSE platform_result(
             remote_detect_software(st, Get(platform_config, "command", <<>>),
                                    Get(platform_config, "version_command", <<>>),
                                    SubSeq(sents, 2 * k - 1, 2 * k),
                                    SubSeq(raws, 2 * k - 1, 2 * k)),
             fields, k, sents, raws)

remote_platform_loop(st, fields, k, sents, raws) ==
    IF k > Len(RemotePlatforms) THEN st
    ELSE try_platform(st, fields,
                      Get(Get(fields, "detection", EmptyDict), RemotePlatforms[k], EmptyDict),
                      k, sents, raws)

\* one iteration of the loop over the targets of
\* FingerprintAgent._detect_remote_software (main.py lines 172-216); raised
\* when the handler's own target.get raises, which ends the method
remote_target(st, target, sents, raws) ==
    IF target.json # "object" THEN [st EXCEPT !.raised = TRUE]
    ELSE remote_platform_loop(st, target.fields, 1, sents, raws)

-----------------------------------------------------------------------------
(* Inputs: configurations and what the software probes print                *)

MaxTargets == 2

Git ==
    JObject([name |-> "Git", vendor |-> "Software Freedom Conservancy",
             family |-> "Version Control",
             detection |-> [linux |-> [command |-> <<"which git">>,
                                       version_command |-> <<"git --version">>]]])

Node ==
    JObject([name |-> "Node.js", vendor |-> "OpenJS Foundation", family |-> "Runtime",
             detection |->
                 [linux |-> [command |-> <<"which node">>,
                             version_command |->
                                 <<AppPath, SP, "--version", SP, "||", SP, AppPath, SP, "-v">>]]])

Widget ==
    JObject([name |-> "Widget", family |-> "Widget Tool",
             detection |-> [linux |-> [command |-> <<"ls -d /opt/widget*">>],
                            windows |-> [command |-> <<"where widget">>]]])

\* a list entry that is not a mapping: a JSON string (any value without a
\* get method behaves as a string does)
Malformed == [json |-> "string", value |-> <<"git">>]

FamilyTarget(f) ==
    JObject([name |-> "Tool", vendor |-> "ACME", family |-> f,
             detection |-> [darwin |-> [command |-> <<"which tool">>],
                            linux |-> [command |-> <<"which tool">>],
                            windows |-> [command |-> <<"which tool">>]]])

\* the configuration document at config_path, by kind: "absent" (open raises
\* FileNotFoundError), "unreadable" (open raises another OSError), "invalid"
\* (json.load raises JSONDecodeError), "array" (valid JSON, a list and not a
\* mapping), "null_targets" (a mapping whose software_targets is null) and
\* "object" (a mapping, with a software_targets list or without the key)
Absent == [kind |-> "absent"]
Document(targets) == [kind |-> "object", software_targets |-> targets]

\* SoftwareDetector._load_config: raised when an exception leaves it, which
\* the two except clauses do not catch for an unreadable file (OSError), for
\* a document without get (AttributeError) and for len(None) (TypeError)
load_config(document) ==
    IF document.kind = "object"
    THEN [raised |-> FALSE, software_targets |-> Get(document, "software_targets", <<>>)]
    ELSE IF document.kind \in {"absent", "invalid"}
    THEN [raised |-> FALSE, software_targets |-> <<>>]
    ELSE [raised |-> TRUE, software_targets |-> <<>>]

\* FingerprintAgent._detect_remote_software, main.py lines 161-172: every
\* exception of the load returns the empty inventory; raised when the loop
\* "for target in software_targets" is given None (TypeError, outside the
\* try blocks)
remote_load_config(document) ==
    IF document.kind = "object"
    THEN [raised |-> FALSE, software_targets |-> Get(document, "software_targets", <<>>)]
    ELSE IF document.kind = "null_targets"
    THEN [raised |-> TRUE, software_targets |-> <<>>]
    ELSE [raised |-> FALSE, software_targets |-> <<>>]

\* the configurations scanned: none, the malformed ones, every list of up to
\* MaxTargets entries
\* of the pool, a target of every family string (the values of the
\* enumeration and strings that are none of them), an entry without
\* family, vendor and name, and a target whose install path holds a version
\* and which has a version command
SoftwareConfigs ==
    {Absent, [kind |-> "unreadable"], [kind |-> "invalid"], [kind |-> "array"],
     [kind |-> "null_targets"], [kind |-> "object"]}
    \cup {Document(l) : l \in UNION {[1..k -> {Git, Node, Widget, Malformed}] : k \in 0..MaxTargets}}
    \cup {Document(<<FamilyTarget(f)>>) :
            f \in ProductFamilyValues \cup {"Widget Tool", "ide", "version control", ""}}
    \cup {Document(<<JObject([detection |->
                                [darwin |-> [command |-> <<"which tool">>],
                                 linux |-> [command |-> <<"which tool">>],
                                 windows |-> [command |-> <<"which tool">>]]])>>)}
    \cup {Document(<<JObject([name |-> "curl", vendor |-> "curl project", family |-> "Other",
                              detection |->
                                  [linux |-> [command |-> <<"ls -d /opt/curl*">>,
                                              version_command |-> <<"curl --version">>]]]),
                      Widget>>)}

ScanConfigs ==
    {Absent, Document(<<Git>>), Document(<<Malformed, Git>>), Document(<<Widget, Node>>)}

\* what a detection or version command of the configuration prints when it
\* finds the product; keyed by the command as configured
SoftwareAnswers(template) ==
    CASE template = <<"which git">> -> {<<"/usr/bin/git">>}
      [] template = <<"git --version">> -> {<<"git", SP, "version", SP, "2", ".", "39", ".", "2">>}
      [] template = <<"which node">> -> {<<"/usr/local/bin/node", NL, "/usr/bin/node">>}
      [] template = Node.fields.detection.linux.version_command ->
             {<<"v18", ".", "1", ".", "0", NL, "npm", SP, "9", ".", "5">>}
      [] template = <<"ls -d /opt/widget*">> ->
             {<<"/opt/widget", "-", "1", ".", "2", ".", "3">>, <<"/opt/widget", "-", "1", ".", "2">>}
      [] template = <<"where widget">> -> {<<"C:\\widget\\widget.exe">>}
      [] template = <<"which tool">> -> {<<"/usr/bin/tool">>}
      [] template = <<"ls -d /opt/curl*">> -> {<<"/opt/curl", "-", "8", ".", "4", ".", "0">>}
      [] template = <<"curl --version">> -> {<<"curl", SP, "8", ".", "4", ".", "0">>}
      [] OTHER -> {}

\* what a probe of the software matcher can do: where the software probes
\* are steady the product is found and the command prints one of its
\* answers, elsewhere every answer and every failure: an exit status other
\* than 0, an empty output, a timeout and an exception of subprocess.run
SoftwareProbe(template, failures) ==
    IF template = <<>> THEN {TimedOut}
    ELSE IF env.flaky # "software"
    THEN Printed({CHOOSE a \in SoftwareAnswers(template) : TRUE})
    ELSE failures \cup {[kind |-> "OSError"]} \cup Printed(SoftwareAnswers(template))

\* what the sentinel probe can do
SentinelProbe ==
    RemoteFailures \cup {NoClient} \cup Printed({<<"SSH_TEST_OK">>, <<"This", SP, "account", SP, "is", SP, "restricted">>})

\* what the sentinel probes re-run by execute_command can do; none is run on
\* a connected executor
Sentinels(ex, n) == IF ex.connected THEN {[i \in 1..n |-> TimedOut]} ELSE [1..n -> SentinelProbe]

-----------------------------------------------------------------------------
(* The scan drivers of main.py as a state machine                           *)

\* report is [kind |-> "pending"] until the driver ends, then what it
\* returned, a report or [kind |-> "None"], or [kind |-> "raised"] when an
\* exception left it

\* utils.format_report
format_report(agent_metadata, info, software_inventory) ==
    [kind |-> "report", agent_metadata |-> agent_metadata, system_info |-> info,
     software_inventory |-> software_inventory]

\* the replies rs of the probes for a system fact, as logged: target 0, the
\* fact probed for (remote: the step of detect_system_info), the command,
\* and whether the reply passed "if success and output"
Probed(rs, fact) ==
    [k \in 1..Len(rs) |-> [target |-> 0, fact |-> fact, command |-> rs[k].command,
                           good |-> rs[k].success /\ rs[k].output # <<>>]]

\* the replies rs, each with the index of the target it was returned for
OfTarget(rs, i) ==
    [k \in 1..Len(rs) |-> [target |-> i, command |-> rs[k].command,
                           success |-> rs[k].success, output |-> rs[k].output]]

\* A scan of a machine of one of the four systems. The probes of one family,
\* the system probes or the software probes, can do anything (env.flaky);
\* those of the other family give the healthy answer. With flaky software
\* probes every configuration is scanned, with flaky system probes a few.
Init ==
    /\ mode \in {"local", "remote"}
    /\ env \in [system : {"Darwin", "Linux", "Windows", "FreeBSD"}, flaky : {"system", "software"}]
    /\ config \in (IF env.flaky = "software" THEN SoftwareConfigs ELSE ScanConfigs)
    /\ pc = "start"
    /\ remote_executor = [connected |-> FALSE]
    /\ issued = <<>>
    /\ replies = <<>>
    /\ evidences = EmptyDict
    /\ system_info = EmptyDict
    /\ software_targets = <<>>
    /\ idx = 1
    /\ detected_software = <<>>
    /\ failed_count = 0
    /\ report = [kind |-> "pending"]

\* run_remote_scan ends with "return None" (lines 109 and 147)
ReturnNone ==
    /\ report' = [kind |-> "None"]
    /\ pc' = "done"

\* run_remote_scan lines 104-109: the executor is created and connect() called
Connect ==
    /\ pc = "start" /\ mode = "remote"
    /\ \E raw \in SentinelProbe :
         LET c == connect(RemoteExecutor(<<"10.0.0.5">>, <<>>, <<>>, "22"), raw) IN
         /\ remote_executor' = c.executor
         /\ issued' = Append(issued, CmdSentinel)
         /\ IF c.ok THEN pc' = "r_system" /\ report' = report ELSE ReturnNone
    /\ UNCHANGED <<replies, mode, env, config, evidences, system_info, software_targets, idx,
                   detected_software, failed_count>>

\* a step of RemoteFingerprinter.detect_system_info that ends in the state
\* st, at position next unless an exception is propagating: run_remote_scan
\* catches it and returns None (lines 145-147)
RemoteStep(st, next) ==
    /\ remote_executor' = st.executor
    /\ system_info' = st.info
    /\ issued' = issued \o st.issued
    /\ replies' = replies \o Probed(st.replies, pc)
    /\ IF st.raised THEN ReturnNone ELSE pc' = next /\ report' = report
    /\ UNCHANGED <<mode, env, config, evidences, software_targets, idx,
                   detected_software, failed_count>>

RemoteOsType ==
    /\ pc = "r_system"
    /\ \E sents \in Sentinels(remote_executor, 1), raw \in SystemProbe(CmdUnameS, RemoteFailures) :
         LET d == detect_os_type(remote_executor, sents[1], raw) IN
         RemoteStep(d.st, d.route)

RemoteDarwin ==
    /\ pc = "darwin"
    /\ \E sents \in Sentinels(remote_executor, 2),
          raw1 \in SystemProbe(CmdSwVers, RemoteFailures),
          raw2 \in SystemProbe(CmdSysctlCpu, RemoteFailures) :
         RemoteStep(detect_darwin_system(RemoteState(remote_executor, system_info),
                                         sents, <<raw1, raw2>>), "r_common")

RemoteLinux ==
    /\ pc = "linux"
    /\ \E sents \in Sentinels(remote_executor, 5),
          raw1 \in SystemProbe(CmdOsReleaseNameRemote, RemoteFailures),
          raw2 \in SystemProbe(CmdLsbId, RemoteFailures),
          raw3 \in SystemProbe(CmdOsReleaseVersionRemote, RemoteFailures),
          raw4 \in SystemProbe(CmdLsbRelease, RemoteFailures),
          raw5 \in SystemProbe(CmdCpuinfoRemote, RemoteFailures) :
         RemoteStep(detect_linux_system(RemoteState(remote_executor, system_info),
                                        sents, <<raw1, raw2, raw3, raw4, raw5>>), "r_common")

RemoteGenericUnix ==
    /\ pc = "unix"
    /\ \E sents \in Sentinels(remote_executor, 1), raw \in SystemProbe(CmdUnameV, RemoteFailures) :
         RemoteStep(detect_generic_unix_system(RemoteState(remote_executor, system_info),
                                               sents[1], raw), "r_common")

RemoteWindows ==
    /\ pc = "windows"
    /\ \E sents \in Sentinels(remote_executor, 1),
          raw \in SystemProbe(CmdSysteminfo, RemoteFailures) :
         RemoteStep(detect_windows_system(RemoteState(remote_executor, system_info),
                                          sents[1], raw), "r_common")

RemoteCommon ==
    /\ pc = "r_common"
    /\ \E sents \in Sentinels(remote_executor, 3),
          raw1 \in SystemProbe(CmdUnameR, RemoteFailures),
          raw2 \in SystemProbe(CmdUnameM, RemoteFailures),
          raw3 \in SystemProbe(CmdHostname, RemoteFailures) :
         RemoteStep(detect_common(RemoteState(remote_executor, system_info),
                                  sents, <<raw1, raw2, raw3>>), "r_config")

\* FingerprintAgent._detect_remote_software lines 161-172: the configuration
\* is read; without it the inventory is empty. An exception that leaves the
\* method is caught by run_remote_scan, which returns None.
RemoteLoadConfig ==
    /\ pc = "r_config"
    /\ software_targets' = remote_load_config(config).software_targets
    /\ IF remote_load_config(config).raised THEN ReturnNone
       ELSE pc' = "r_targets" /\ report' = report
    /\ UNCHANGED <<replies, mode, env, config, remote_executor, issued, evidences, system_info, idx,
                   detected_software, failed_count>>

\* the raw outcomes of the probes of one target: detection and version
\* command of each platform key in turn, then the architecture probe
RemoteTargetRaws(target) ==
    LET cfg(k) == IF target.json = "object"
                  THEN Get(Get(target.fields, "detection", EmptyDict), RemotePlatforms[k], EmptyDict)
                  ELSE EmptyDict
        D(k) == SoftwareProbe(Get(cfg(k), "command", <<>>), RemoteFailures)
        V(k) == SoftwareProbe(Get(cfg(k), "version_command", <<>>), RemoteFailures)
    IN  {<<d1, v1, d2, v2, d3, v3, a>> :
            d1 \in D(1), v1 \in V(1), d2 \in D(2), v2 \in V(2), d3 \in D(3), v3 \in V(3),
            a \in SystemProbe(CmdUnameM, RemoteFailures)}

\* one iteration of the loop over the targets (main.py lines 172-216)
RemoteDetectTarget ==
    /\ pc = "r_targets" /\ idx <= Len(software_targets)
    /\ \E sents \in Sentinels(remote_executor, 7),
          raws \in RemoteTargetRaws(software_targets[idx]) :
         LET st == remote_target(RemoteState(remote_executor, detected_software),
                                 software_targets[idx], sents, raws)
         IN  /\ remote_executor' = st.executor
             /\ detected_software' = st.info
             /\ issued' = issued \o st.issued
             /\ replies' = replies \o OfTarget(st.replies, idx)
             /\ idx' = idx + 1
             /\ IF st.raised THEN ReturnNone ELSE pc' = pc /\ report' = report
    /\ UNCHANGED <<mode, env, config, evidences, system_info, software_targets, failed_count>>

\* run_remote_scan lines 121-143: the report is formatted and returned
RemoteReport ==
    /\ pc = "r_targets" /\ idx > Len(software_targets)
    /\ report' = format_report([scan_type |-> "remote", target_host |-> remote_executor.host,
                                agent_version |-> "2.0.0"],
                               system_info, detected_software)
    /\ pc' = "done"
    /\ UNCHANGED <<replies, mode, env, config, remote_executor, issued, evidences, system_info,
                   software_targets, idx, detected_software, failed_count>>

\* a method of SystemDetector called by detect_all has returned d: its value
\* is kept under key for the system_info dictionary. raws are the outcomes
\* of its candidate commands, the k-th for the k-th command it ran.
LocalStep(d, key, next, raws) ==
    /\ system_info' = (key :> d.ret) @@ system_info
    /\ evidences' = d.ev
    /\ issued' = issued \o d.issued
    /\ replies' = replies \o Probed([k \in 1..Len(d.issued) |->
                                        Reply(d.issued[k], execute_command(d.issued[k], raws[k]))],
                                    key)
    /\ pc' = next
    /\ UNCHANGED <<mode, env, config, remote_executor, software_targets, idx,
                   detected_software, failed_count, report>>

\* run_local_scan line 54, SystemDetector.detect_all line 35
DetectOs ==
    /\ pc = "start" /\ mode = "local"
    /\ \E raw1 \in SystemProbe(CmdOsReleaseName, LocalFailures),
          raw2 \in SystemProbe(CmdLsbId, LocalFailures),
          raw3 \in SystemProbe(CmdIssue, LocalFailures) :
         LocalStep(detect_os(evidences, raw1, raw2, raw3), "os", "l_version",
                   <<raw1, raw2, raw3>>)

\* SystemDetector.detect_all line 36
DetectOsVersion ==
    /\ pc = "l_version"
    /\ \E raw1 \in SystemProbe(IF is_darwin THEN CmdSwVers
                               ELSE IF is_windows THEN CmdVer ELSE CmdOsReleaseVersion,
                               LocalFailures),
          raw2 \in SystemProbe(CmdLsbRelease, LocalFailures),
          raw3 \in SystemProbe(CmdUnameR, LocalFailures) :
         LocalStep(detect_os_version(evidences, raw1, raw2, raw3), "version", "l_kernel",
                   <<raw1, raw2, raw3>>)

\* SystemDetector.detect_all line 37
DetectKernelVersion ==
    /\ pc = "l_kernel"
    /\ \E raw \in SystemProbe(IF is_windows THEN CmdVer ELSE CmdUnameR, LocalFailures) :
         LocalStep(detect_kernel_version(evidences, raw), "kernel", "l_cpu", <<raw>>)

\* SystemDetector.detect_all line 38
DetectCpu ==
    /\ pc = "l_cpu"
    /\ \E raw1 \in SystemProbe(IF is_darwin THEN CmdSysctlCpu
                               ELSE IF is_windows THEN CmdWmicCpu ELSE CmdCpuinfo,
                               LocalFailures),
          raw2 \in SystemProbe(CmdLscpu, LocalFailures) :
         LocalStep(detect_cpu(evidences, raw1, raw2), "cpu", "l_architecture", <<raw1, raw2>>)

\* SystemDetector.detect_all line 39
DetectArchitecture ==
    /\ pc = "l_architecture"
    /\ \E raw \in SystemProbe(IF is_windows THEN CmdEchoArch ELSE CmdUnameM, LocalFailures) :
         LocalStep(detect_architecture(evidences, raw), "architecture", "l_hostname", <<raw>>)

\* SystemDetector.detect_all line 40
DetectHostname ==
    /\ pc = "l_hostname"
    /\ \E raw \in SystemProbe(CmdHostname, LocalFailures) :
         LocalStep(detect_hostname(evidences, raw), "hostname", "l_evidence", <<raw>>)

\* SystemDetector.detect_all lines 41-49: the collected evidences are added
DetectAllSystem ==
    /\ pc = "l_evidence"
    /\ system_info' = ("evidence" :> [k \in DOMAIN evidences |-> to_dict(evidences[k])])
                      @@ system_info
    /\ pc' = "l_config"
    /\ UNCHANGED <<replies, mode, env, config, remote_executor, issued, evidences, software_targets,
                   idx, detected_software, failed_count, report>>

\* run_local_scan line 57: SoftwareDetector.__init__ and _load_config; an
\* exception that leaves _load_config leaves run_local_scan too
LoadConfig ==
    /\ pc = "l_config"
    /\ software_targets' = load_config(config).software_targets
    /\ IF load_config(config).raised THEN report' = [kind |-> "raised"] /\ pc' = "done"
       ELSE pc' = "l_targets" /\ report' = report
    /\ UNCHANGED <<replies, mode, env, config, remote_executor, issued, evidences, system_info, idx,
                   detected_software, failed_count>>

\* one iteration of the loop of SoftwareDetector.detect_all; an exception
\* that leaves detect_all leaves run_local_scan too
DetectAllStep ==
    /\ pc = "l_targets" /\ idx <= Len(software_targets)
    /\ LET target == software_targets[idx]
           cfg == IF target.json = "object"
                  THEN Get(Get(target.fields, "detection", EmptyDict), get_platform_key, EmptyDict)
                  ELSE EmptyDict
       IN  \E rawD \in SoftwareProbe(Get(cfg, "command", <<>>), LocalFailures),
              rawV \in SoftwareProbe(Get(cfg, "version_command", <<>>), LocalFailures) :
             LET it == detect_all_iteration(detected_software, failed_count, target,
                                            get_platform_key, rawD, rawV)
             IN  /\ detected_software' = it.detected
                 /\ failed_count' = it.failed
                 /\ issued' = issued \o it.issued
                 /\ replies' = replies \o OfTarget(it.replies, idx)
                 /\ idx' = idx + 1
                 /\ IF it.raised THEN report' = [kind |-> "raised"] /\ pc' = "done"
                    ELSE report' = report /\ pc' = pc
    /\ UNCHANGED <<mode, env, config, remote_executor, evidences, system_info, software_targets>>

\* detect_all returns the inventory; run_local_scan lines 60-82
LocalReport ==
    /\ pc = "l_targets" /\ idx > Len(software_targets)
    /\ report' = format_report([scan_type |-> "local",
                                target_host |-> Get(system_info, "hostname", <<"localhost">>),
                                agent_version |-> "2.0.0"],
                               system_info, detected_software)
    /\ pc' = "done"
    /\ UNCHANGED <<replies, mode, env, config, remote_executor, issued, evidences, system_info,
                   software_targets, idx, detected_software, failed_count>>

Next ==
    \/ Connect
    \/ RemoteOsType
    \/ RemoteDarwin
    \/ RemoteLinux
    \/ RemoteGenericUnix
    \/ RemoteWindows
    \/ RemoteCommon
    \/ RemoteLoadConfig
    \/ RemoteDetectTarget
    \/ RemoteReport
    \/ DetectOs
    \/ DetectOsVersion
    \/ DetectKernelVersion
    \/ DetectCpu
    \/ DetectArchitecture
    \/ DetectHostname
    \/ DetectAllSystem
    \/ LoadConfig
    \/ DetectAllStep
    \/ LocalReport

Spec == Init /\ [][Next]_vars

-----------------------------------------------------------------------------
(* A client of the transports: a RemoteExecutor used on its own, as a       *)
(* context manager or through create_remote_executor, and the local         *)
(* execute_command                                                          *)

MaxCalls == 2

\* what subprocess.run can do with a command that would print answer: the
\* failures of a command, a missing executable, another exception of the
\* operating system, or the answer
Outcomes(answer) ==
    RemoteFailures \cup {NoClient, [kind |-> "OSError"]} \cup Printed({answer})

\* the argument vectors subprocess.run is given (utils.py line 129) for the
\* commands cmds handed to execute_ssh_command by the executor ex
Argv(ex, cmds) ==
    [k \in 1..Len(cmds) |->
        ssh_parts(ex.host, cmds[k], ex.username, ex.port, ex.key_file, ex.timeout)]

\* an executor of every shape of arguments, not yet connected; replies logs
\* each call with what it was given and what it returned
InitTransport ==
    /\ mode = "transport"
    /\ env = [system |-> "Linux", flaky |-> "software"]
    /\ config = Absent
    /\ pc = "client"
    /\ remote_executor \in {RemoteExecutor(<<"10.0.0.5">>, username, key_file, port) :
                               username \in {<<>>, <<"admin">>},
                               key_file \in {<<>>, <<"~/.ssh/id_rsa">>},
                               port \in {"22", "2222"}}
    /\ issued = <<>>
    /\ replies = <<>>
    /\ evidences = EmptyDict
    /\ system_info = EmptyDict
    /\ software_targets = <<>>
    /\ idx = 1
    /\ detected_software = <<>>
    /\ failed_count = 0
    /\ report = [kind |-> "pending"]

\* utils.execute_command(command)
CallLocal ==
    /\ mode = "transport" /\ Len(replies) < MaxCalls
    /\ \E raw \in Outcomes(<<"host01">>) :
         replies' = Append(replies,
                           [call |-> "execute_command", raw |-> raw,
                            success |-> execute_command(CmdHostname, raw).success,
                            output |-> execute_command(CmdHostname, raw).output])
    /\ UNCHANGED <<mode, env, config, pc, remote_executor, issued, evidences, system_info,
                   software_targets, idx, detected_software, failed_count, report>>

\* RemoteExecutor.connect(), as called by __enter__ and create_remote_executor
CallConnect ==
    /\ mode = "transport" /\ Len(replies) < MaxCalls
    /\ \E raw \in SentinelProbe :
         /\ remote_executor' = connect(remote_executor, raw).executor
         /\ issued' = Append(issued, CmdSentinel)
         /\ replies' = Append(replies,
                              [call |-> "connect", raw |-> raw,
                               reply |-> execute_ssh_command(
                                             remote_executor.host, CmdSentinel,
                                             remote_executor.username, remote_executor.port,
                                             remote_executor.key_file,
                                             remote_executor.timeout, raw),
                               ok |-> connect(remote_executor, raw).ok,
                               argv |-> Argv(remote_executor, <<CmdSentinel>>)])
    /\ UNCHANGED <<mode, env, config, pc, evidences, system_info, software_targets, idx,
                   detected_software, failed_count, report>>

\* RemoteExecutor.execute_command(command)
CallExecute ==
    /\ mode = "transport" /\ Len(replies) < MaxCalls
    /\ \E sents \in Sentinels(remote_executor, 1), raw \in Outcomes(<<"Linux">>) :
         /\ remote_executor' = RemoteExecute(remote_executor, CmdUnameS, sents[1], raw).executor
         /\ issued' = issued \o RemoteExecute(remote_executor, CmdUnameS, sents[1], raw).issued
         /\ replies' = Append(replies,
               [call |-> "RemoteExecutor.execute_command", command |-> CmdUnameS,
                was_connected |-> remote_executor.connected, sentinel |-> sents[1], raw |-> raw,
                connected |-> RemoteExecute(remote_executor, CmdUnameS, sents[1], raw)
                                  .executor.connected,
                success |-> RemoteExecute(remote_executor, CmdUnameS, sents[1], raw).success,
                output |-> RemoteExecute(remote_executor, CmdUnameS, sents[1], raw).output,
                ssh_cmd |-> RemoteExecute(remote_executor, CmdUnameS, sents[1], raw).ssh_cmd,
                issued |-> RemoteExecute(remote_executor, CmdUnameS, sents[1], raw).issued,
                argv |-> Argv(remote_executor,
                              RemoteExecute(remote_executor, CmdUnameS, sents[1], raw).issued)])
    /\ UNCHANGED <<mode, env, config, pc, evidences, system_info, software_targets, idx,
                   detected_software, failed_count, report>>

\* RemoteExecutor.__exit__
CallExit ==
    /\ mode = "transport" /\ remote_executor.connected
    /\ remote_executor' = [remote_executor EXCEPT !.connected = FALSE]
    /\ UNCHANGED <<mode, env, config, pc, issued, replies, evidences, system_info,
                   software_targets, idx, detected_software, failed_count, report>>

NextTransport ==
    \/ CallLocal
    \/ CallConnect
    \/ CallExecute
    \/ CallExit

SpecTransport == InitTransport /\ [][NextTransport]_vars

-----------------------------------------------------------------------------
(* Properties                                                               *)

\* the scan driver has returned or raised
Done == pc = "done"

\* a reply that found something: success and an output that is not empty
Answered(r) == r.success /\ r.output # <<>>

\* the replies returned while the i-th target was evaluated, in order
RepliesOf(i) == SelectSeq(replies, LAMBDA r : r.target = i)

\* the platform keys the matcher of this scan tries for a target
PlatformKeys == IF mode = "local" THEN {get_platform_key} ELSE {"darwin", "linux", "windows"}

\* the configuration of the i-th target for the platform key p
PlatformConfig(i, p) ==
    IF software_targets[i].json = "object"
    THEN Get(Get(software_targets[i].fields, "detection", EmptyDict), p, EmptyDict)
    ELSE EmptyDict

\* the i-th target was evaluated and its detection command found the product
\* (local matcher: the first reply of the target is that of the detection
\* command)
LocalDetected(i) == RepliesOf(i) # <<>> /\ Answered(RepliesOf(i)[1])

\* the i-th target was evaluated and its detection command failed
LocalFailed(i) == RepliesOf(i) # <<>> /\ ~Answered(RepliesOf(i)[1])

\* the position in the inventory of the record of the i-th target
Position(i) == Cardinality({j \in 1..i : LocalDetected(j)})

AllMappings == \A i \in 1..Len(software_targets) : software_targets[i].json = "object"

\* the text before the first line break
RECURSIVE HeadLine(_)
HeadLine(t) == IF t = <<>> \/ Head(t) = NL THEN <<>> ELSE <<Head(t)>> \o HeadLine(Tail(t))

\* the template with every placeholder atom replaced by the text path
RECURSIVE Substituted(_, _)
Substituted(template, path) ==
    IF template = <<>> THEN <<>>
    ELSE (IF Head(template) = AppPath THEN path ELSE <<Head(template)>>)
         \o Substituted(Tail(template), path)

SystemFields == {"os", "version", "kernel", "cpu", "architecture", "hostname"}

\* the key under which SystemDetector files the evidence of a field
EvidenceKey(field) ==
    CASE field = "os" -> "linux_distro"
      [] field = "version" -> "os_version"
      [] OTHER -> field

\* C1: when the sentinel probe of connect() fails, run_remote_scan returns
\* None at once: the sentinel is the only command handed to the transport,
\* and no system information and no inventory is gathered.
C1_SentinelFailureEndsScan ==
    (mode = "remote" /\ pc # "start" /\ ~remote_executor.connected) =>
        /\ Done
        /\ report.kind = "None"
        /\ issued = <<CmdSentinel>>
        /\ replies = <<>>
        /\ IsEmpty(system_info)
        /\ detected_software = <<>>

C1_Witness ==
    mode = "remote" /\ Done /\ ~remote_executor.connected /\ report.kind = "None"

\* C2: once the sentinel probe has succeeded, run_remote_scan returns a
\* report, whatever the later probes do and whatever the target list is.
C2_ReportAfterConnection ==
    (mode = "remote" /\ Done /\ remote_executor.connected) => report.kind = "report"

\* C3: in SoftwareDetector.detect_all over a list of mappings, a target whose
\* detection command fails yields no record and the loop goes on: every
\* target with a detection command is evaluated, and the inventory returned
\* holds, in order, exactly the records of the targets whose detection
\* command succeeded.
C3_FailedTargetSkipped ==
    (mode = "local" /\ Done /\ AllMappings /\ ~load_config(config).raised) =>
        /\ report.kind = "report"
        /\ \A i \in 1..Len(software_targets) :
             /\ Get(PlatformConfig(i, get_platform_key), "command", <<>>) # <<>>
                  => RepliesOf(i) # <<>>
             /\ LocalDetected(i) =>
                  /\ Position(i) <= Len(report.software_inventory)
                  /\ report.software_inventory[Position(i)].productName
                       = Get(software_targets[i].fields, "name", "Unknown")
                  /\ report.software_inventory[Position(i)].evidence.detection.command_run
                       = RepliesOf(i)[1].command
        /\ Len(report.software_inventory)
             = Cardinality({i \in 1..Len(software_targets) : LocalDetected(i)})

C3_Witness ==
    /\ mode = "local" /\ Done /\ AllMappings
    /\ \E i, j \in 1..Len(software_targets) : i < j /\ LocalFailed(i) /\ LocalDetected(j)
    /\ report.kind = "report" /\ Len(report.software_inventory) = 1

\* C4: a target whose evaluation raises, such as a list entry that is not a
\* mapping, does not end the loop over the targets: in the local and in the
\* remote scan every target is evaluated and a report is returned.
C4_ExceptionIsolated ==
    \A i \in 1..Len(software_targets) :
        (Done /\ idx > i /\ software_targets[i].json # "object") =>
            report.kind = "report" /\ idx > Len(software_targets)

\* C5: on darwin, linux and windows SystemDetector.detect_all returns all six
\* fields, and its evidence map has an entry for every field whose value is
\* not "Unknown".
C5_EvidenceForEveryField ==
    (mode = "local" /\ env.system \in {"Darwin", "Linux", "Windows"}
     /\ pc \in {"l_config", "l_targets", "done"}) =>
        /\ SystemFields \cup {"evidence"} \subseteq DOMAIN system_info
        /\ \A f \in SystemFields :
             system_info[f] # Unknown => EvidenceKey(f) \in DOMAIN system_info.evidence

\* C6: in the local matcher, when the detection command and the configured
\* version command of a target both succeed, the record has the target's
\* name, the first line of the detection output as installPath, the first
\* line of the version output as versionNumber and the normalized family;
\* for Git these are "Git", /usr/bin/git, "git version 2.39.2" and
\* "Version Control".
C6_LocalRecordFields ==
    mode = "local" =>
        \A i \in 1..(idx - 1) :
            (/\ LocalDetected(i)
             /\ Len(RepliesOf(i)) = 2
             /\ Answered(RepliesOf(i)[2])
             /\ Position(i) <= Len(detected_software)) =>
                LET rec == detected_software[Position(i)]
                    fields == software_targets[i].fields
                IN  /\ rec.productName = Get(fields, "name", "Unknown")
                    /\ rec.installPath = HeadLine(RepliesOf(i)[1].output)
                    /\ rec.versionNumber = HeadLine(RepliesOf(i)[2].output)
                    /\ rec.productFamily
                         = normalize_product_family(Get(fields, "family", "Unknown"))
                    /\ software_targets[i] = Git =>
                         /\ rec.productName = "Git"
                         /\ rec.installPath = <<"/usr/bin/git">>
                         /\ rec.versionNumber
                              = <<"git", SP, "version", SP, "2", ".", "39", ".", "2">>
                         /\ rec.productFamily = "Version Control"

C6_Witness ==
    /\ mode = "local" /\ Done /\ report.kind = "report"
    /\ \E i \in 1..Len(software_targets) :
         /\ software_targets[i] = Node
         /\ LocalDetected(i) /\ Len(RepliesOf(i)) = 2 /\ Answered(RepliesOf(i)[2])
    /\ \E i \in 1..Len(software_targets) :
         /\ software_targets[i] = Git
         /\ LocalDetected(i) /\ Len(RepliesOf(i)) = 2 /\ Answered(RepliesOf(i)[2])

\* C7: the family of a record of the local matcher is always a member of the
\* ProductFamily enumeration: the configured string when that is a value of
\* the enumeration, and "Other" for every other string, such as
\* "Widget Tool" or a value in another letter case.
C7_FamilyNormalized ==
    mode = "local" =>
        \A i \in 1..(idx - 1) :
            (LocalDetected(i) /\ Position(i) <= Len(detected_software)) =>
                LET family == Get(software_targets[i].fields, "family", "Unknown")
                    got == detected_software[Position(i)].productFamily
                IN  /\ got \in ProductFamilyValues
                    /\ family \in ProductFamilyValues => got = family
                    /\ family \notin ProductFamilyValues => got = "Other"

C7_Witness ==
    /\ mode = "local" /\ Done /\ Len(software_targets) = 1 /\ LocalDetected(1)
    /\ Get(software_targets[1].fields, "family", "Unknown") = "version control"
    /\ report.kind = "report"
    /\ report.software_inventory[1].productFamily = "Other"

\* C8: every record of the software_inventory of a report, of a local or of
\* a remote scan, has a productFamily that is a member of the ProductFamily
\* enumeration.
C8_InventoryFamiliesInEnum ==
    (Done /\ report.kind = "report") =>
        \A k \in 1..Len(report.software_inventory) :
            report.software_inventory[k].productFamily \in ProductFamilyValues

\* C9: when a candidate probe of the Linux OS-name waterfall succeeds, the
\* detected OS name is the first whitespace-delimited token of its output,
\* in the local SystemDetector and in the RemoteFingerprinter.
C9_FirstTokenOnly ==
    /\ (mode = "local" /\ "os" \in DOMAIN system_info /\ "linux_distro" \in DOMAIN evidences)
         => system_info.os = SplitWords(evidences.linux_distro.raw_output)[1]
    /\ (mode = "remote" /\ ~IsEmpty(system_info) /\ "os_name" \in DOMAIN system_info.evidence)
         => system_info.os = SplitWords(system_info.evidence.os_name.raw_output)[1]

\* C10: when the version command configured for a platform contains the
\* placeholder and the detection command of that platform succeeds, the next
\* command run is the version command with every placeholder replaced by the
\* first line of the detection output: it holds that path and no
\* placeholder. This is so in the local and in the remote matcher.
C10_PlaceholderSubstituted ==
    \A i \in 1..Len(software_targets) : \A k \in 1..Len(RepliesOf(i)) : \A p \in PlatformKeys :
        (/\ RepliesOf(i)[k].command = Get(PlatformConfig(i, p), "command", <<"-">>)
         /\ Answered(RepliesOf(i)[k])
         /\ Contains(Get(PlatformConfig(i, p), "version_command", <<>>), AppPath)) =>
            /\ k < Len(RepliesOf(i))
            /\ RepliesOf(i)[k + 1].command
                 = Substituted(PlatformConfig(i, p).version_command,
                               HeadLine(RepliesOf(i)[k].output))
            /\ ~Contains(RepliesOf(i)[k + 1].command, AppPath)
            /\ \E n \in 1..Len(RepliesOf(i)[k + 1].command) :
                 RepliesOf(i)[k + 1].command[n] = "/usr/local/bin/node"

C10_WitnessLocal ==
    /\ mode = "local" /\ Done
    /\ \E i \in 1..Len(software_targets) :
         /\ software_targets[i] = Node
         /\ Len(RepliesOf(i)) = 2 /\ Answered(RepliesOf(i)[1])
         /\ Contains(RepliesOf(i)[2].command, "/usr/local/bin/node")

C10_Witness ==
    /\ mode = "remote" /\ Done
    /\ \E i \in 1..Len(software_targets) :
         /\ software_targets[i] = Node
         /\ Len(RepliesOf(i)) = 3 /\ Answered(RepliesOf(i)[1])
         /\ Contains(RepliesOf(i)[2].command, "/usr/local/bin/node")

\* the i-th target is a mapping without a detection entry for the platform
\* key of the local matcher
NotApplicable(i) ==
    software_targets[i].json = "object" /\ IsEmpty(PlatformConfig(i, get_platform_key))

\* C11: in a local scan, the iteration of detect_all over a target without a
\* detection entry for the current platform key runs no command, adds no
\* record and leaves the failure count as it was.
C11_NotApplicableIsNotFailure ==
    [][(pc = "l_targets" /\ idx <= Len(software_targets) /\ NotApplicable(idx)) =>
          /\ issued' = issued
          /\ replies' = replies
          /\ detected_software' = detected_software
          /\ failed_count' = failed_count
          /\ report' = report]_vars

C11_Witness ==
    /\ mode = "local" /\ Done /\ report.kind = "report"
    /\ Len(software_targets) = 2 /\ NotApplicable(1) /\ LocalDetected(2)
    /\ Len(report.software_inventory) = 1 /\ failed_count = 0

\* the calls of the client that went through ssh
Calls(name) == {k \in 1..Len(replies) : replies[k].call = name}

\* the process did not run to its end: the timeout expired, the executable
\* is missing or subprocess.run raised something else
Broke(raw) == raw.kind # "exit"

\* the sentinel probe printed its text and exited with status 0
SentinelOk(raw) == raw.kind = "exit" /\ raw.rc = 0 /\ Contains(raw.stdout, "SSH_TEST_OK")

\* C12: every transport call returns a tuple. When the process of the
\* command (or, for an executor that has to reconnect, of the sentinel) ends
\* by a timeout, a missing ssh client or another exception, execute_command,
\* execute_ssh_command and RemoteExecutor.execute_command return success =
\* false with an output that is not empty.
C12_FailuresAreReturned ==
    mode = "transport" =>
        /\ \A k \in Calls("execute_command") :
              /\ replies[k].success \in BOOLEAN
              /\ Broke(replies[k].raw) => ~replies[k].success /\ replies[k].output # <<>>
        /\ \A k \in Calls("connect") :
              /\ replies[k].reply.success \in BOOLEAN
              /\ Broke(replies[k].raw) =>
                    /\ ~replies[k].reply.success /\ replies[k].reply.output # <<>>
                    /\ ~replies[k].ok
        /\ \A k \in Calls("RemoteExecutor.execute_command") :
              /\ replies[k].success \in BOOLEAN
              /\ (~replies[k].was_connected /\ Broke(replies[k].sentinel)) =>
                    ~replies[k].success /\ replies[k].output # <<>>
              /\ Broke(replies[k].raw) => ~replies[k].success /\ replies[k].output # <<>>

C12_Witness ==
    /\ mode = "transport"
    /\ \E k \in Calls("execute_command") :
          replies[k].raw = TimedOut /\ ~replies[k].success /\ replies[k].output # <<>>
    /\ \E k \in Calls("RemoteExecutor.execute_command") :
          /\ replies[k].raw = NoClient /\ CmdUnameS \in {replies[k].issued[j] :
                                                            j \in 1..Len(replies[k].issued)}
          /\ ~replies[k].success
          /\ replies[k].output = <<"SSH client not found. Install OpenSSH.">>

\* C13: a call of execute_command on an executor that is not marked
\* connected runs the sentinel probe first and once. If the probe fails the
\* call returns success = false, the requested command is not handed to ssh
\* and the executor stays unconnected; if it succeeds the executor is marked
\* connected and the requested command is handed to ssh. On a connected
\* executor the requested command alone is handed to ssh.
C13_ReconnectOnceOrFailClosed ==
    mode = "transport" =>
        \A k \in Calls("RemoteExecutor.execute_command") :
            IF replies[k].was_connected
            THEN replies[k].issued = <<replies[k].command>>
            ELSE IF SentinelOk(replies[k].sentinel)
            THEN /\ replies[k].issued = <<CmdSentinel, replies[k].command>>
                 /\ replies[k].connected
            ELSE /\ replies[k].issued = <<CmdSentinel>>
                 /\ ~replies[k].success
                 /\ ~replies[k].connected

\* two calls in a row on an executor that was never connected: the first
\* fails closed, the second reconnects and runs its command
C13_Witness ==
    /\ mode = "transport" /\ Len(replies) = 2
    /\ Calls("RemoteExecutor.execute_command") = {1, 2}
    /\ ~replies[1].was_connected /\ ~SentinelOk(replies[1].sentinel)
    /\ ~replies[2].was_connected /\ SentinelOk(replies[2].sentinel)
    /\ issued = <<CmdSentinel, CmdSentinel, CmdUnameS>>

\* the argument vectors handed to subprocess.run by the calls of the client,
\* each with the remote command it was built for
Vectors ==
    {[argv |-> replies[k].argv[1], command |-> CmdSentinel] : k \in Calls("connect")}
    \cup UNION {{[argv |-> replies[k].argv[j], command |-> replies[k].issued[j]] :
                    j \in 1..Len(replies[k].argv)} :
                 k \in Calls("RemoteExecutor.execute_command")}

\* the positions of the argument arg in the vector a
Places(a, arg) == {n \in 1..Len(a) : a[n] = arg}

\* C14: the argument vector of every ssh call is ssh, the options
\* BatchMode=yes, StrictHostKeyChecking=no, UserKnownHostsFile=/dev/null and
\* ConnectTimeout=<timeout> in that order, then "-p <port>" exactly when the
\* port is not 22, then "-i <key_file>" exactly when a key file is given,
\* then <user>@<host> when a username is given and <host> otherwise, and the
\* remote command last.
C14_ArgumentVector ==
    mode = "transport" =>
        \A v \in Vectors :
            LET a == v.argv
                ex == remote_executor
                p == IF ex.port # "22" THEN 2 ELSE 0
                i == IF ex.key_file # <<>> THEN 2 ELSE 0
            IN  /\ Len(a) = 9 + p + i + 2
                /\ SubSeq(a, 1, 9)
                     = << <<"ssh">>, <<"-o">>, <<"BatchMode=yes">>,
                          <<"-o">>, <<"StrictHostKeyChecking=no">>,
                          <<"-o">>, <<"UserKnownHostsFile=/dev/null">>,
                          <<"-o">>, <<"ConnectTimeout=", ex.timeout>> >>
                /\ Places(a, <<"-p">>) = (IF ex.port # "22" THEN {10} ELSE {})
                /\ ex.port # "22" => a[11] = <<ex.port>>
                /\ Places(a, <<"-i">>) = (IF ex.key_file # <<>> THEN {10 + p} ELSE {})
                /\ ex.key_file # <<>> => a[11 + p] = ex.key_file
                /\ a[Len(a) - 1] = (IF ex.username # <<>>
                                    THEN ex.username \o <<"@">> \o ex.host ELSE ex.host)
                /\ a[Len(a)] = v.command

\* a call with a port other than 22, a key file and a username, and the
\* vector it ran
C14_Witness ==
    /\ mode = "transport"
    /\ remote_executor.port = "2222" /\ remote_executor.key_file # <<>>
    /\ remote_executor.username = <<"admin">>
    /\ \E v \in Vectors :
          /\ v.command = CmdUnameS
          /\ SubSeq(v.argv, 10, 15)
               = << <<"-p">>, <<"2222">>, <<"-i">>, <<"~/.ssh/id_rsa">>,
                    <<"admin", "@", "10.0.0.5">>, CmdUnameS >>

\* C15: every result of the remote transport, successful or failed, carries
\* the ssh command line of the call: the argument vector that was run for
\* it, joined by spaces. For execute_ssh_command this is the vector of its
\* command, for RemoteExecutor.execute_command the last vector the call ran.
C15_ResultNamesIssuedCommand ==
    mode = "transport" =>
        /\ \A k \in Calls("connect") :
              replies[k].reply.ssh_cmd = Join(replies[k].argv[1], SP)
        /\ \A k \in Calls("RemoteExecutor.execute_command") :
              /\ replies[k].argv # <<>>
              /\ replies[k].ssh_cmd = Join(replies[k].argv[Len(replies[k].argv)], SP)

\* the configuration document is missing or malformed: anything but a
\* mapping with a software_targets list
NoTargetList == config.kind # "object" \/ "software_targets" \notin DOMAIN config

\* C16: a missing or malformed configuration document never aborts a scan.
\* In the local scan (SoftwareDetector construction and detect_all) and in
\* the remote scan (_detect_remote_software) the step that reads it goes on
\* with an empty target list, and the report returned has an empty
\* software_inventory.
C16_MalformedConfigurationProceeds ==
    /\ [][(pc \in {"l_config", "r_config"} /\ NoTargetList) =>
             /\ pc' \in {"l_targets", "r_targets"}
             /\ software_targets' = <<>>
             /\ report' = report]_vars
    /\ []((Done /\ NoTargetList /\ report.kind = "report") =>
             report.software_inventory = <<>>)

\* C17: every record of the inventory, local or remote, has a "detection"
\* evidence entry whose raw output has installPath as its first line, and a
\* versionNumber other than "Unknown" is explained by the evidence map: it
\* is found in the raw output of the "detection" entry, or the map has a
\* "version" entry, for the version command, whose raw output gives it.
C17_RecordFactsHaveEvidence ==
    \A k \in 1..Len(detected_software) :
        LET rec == detected_software[k] IN
        /\ "detection" \in DOMAIN rec.evidence
        /\ HeadLine(rec.evidence.detection.raw_output) = rec.installPath
        /\ rec.versionNumber # Unknown =>
              \/ rec.versionNumber = search_version(rec.evidence.detection.raw_output)
              \/ /\ "version" \in DOMAIN rec.evidence
                 /\ rec.versionNumber \in {HeadLine(rec.evidence.version.raw_output),
                                           Strip(rec.evidence.version.raw_output)}

\* C18: get_platform_key returns "darwin", "linux" or "windows" for every
\* host system name, "linux" for a name that is none of Darwin, Linux and
\* Windows; the local matcher runs the detection command configured under
\* that key.
C18_PlatformKey ==
    /\ get_platform_key \in {"darwin", "linux", "windows"}
    /\ get_platform_key = (CASE platform.system = "Darwin" -> "darwin"
                             [] platform.system = "Windows" -> "windows"
                             [] OTHER -> "linux")
    /\ mode = "local" =>
          \A i \in 1..Len(software_targets) :
              RepliesOf(i) # <<>> =>
                  RepliesOf(i)[1].command = PlatformConfig(i, get_platform_key).command

C18_Witness ==
    /\ mode = "local" /\ platform.system = "FreeBSD" /\ Done
    /\ Len(software_targets) = 1 /\ software_targets[1] = Git
    /\ RepliesOf(1) # <<>> /\ RepliesOf(1)[1].command = <<"which git">>

\* the logged replies of the probes for the system fact, in order
Tries(fact) == SelectSeq(replies, LAMBDA r : r.target = 0 /\ r.fact = fact)

\* the logged replies to the commands of the candidate list cands
TriesOf(cands) ==
    SelectSeq(replies, LAMBDA r : r.target = 0 /\ \E j \in 1..Len(cands) : r.command = cands[j])

\* the candidates were run in list order up to and including the first one
\* whose reply was successful and not empty, and no further
InOrderUntilGood(tries, cands) ==
    /\ Len(tries) <= Len(cands)
    /\ \A j \in 1..Len(tries) : tries[j].command = cands[j]
    /\ \A j \in 1..(Len(tries) - 1) : ~tries[j].good
    /\ ~tries[Len(tries)].good => Len(tries) = Len(cands)

\* the candidate lists of the local Linux detectors
LinuxCandidates(fact) ==
    CASE fact = "os" -> <<CmdOsReleaseName, CmdLsbId, CmdIssue>>
      [] fact = "version" -> <<CmdOsReleaseVersion, CmdLsbRelease, CmdUnameR>>
      [] fact = "cpu" -> <<CmdCpuinfo, CmdLscpu>>

\* C19: the candidate commands of a fact are run strictly in list order, the
\* first whose reply is successful and not empty supplies the value of the
\* fact, the evidence under the fact's key is that of this candidate, and
\* no later candidate is run. Checked for the distribution name, the version
\* and the CPU of the local SystemDetector on Linux and for the distribution
\* name and the version of RemoteFingerprinter._detect_linux_system.
C19_CandidatesInOrder ==
    /\ (mode = "local" /\ is_linux) =>
          \A fact \in {"os", "version", "cpu"} :
              LET tries == Tries(fact)
                  cands == LinuxCandidates(fact)
                  key == IF fact = "cpu" THEN "cpu" ELSE EvidenceKey(fact)
              IN  tries # <<>> =>
                    /\ InOrderUntilGood(tries, cands)
                    /\ tries[Len(tries)].good =>
                          /\ evidences[key].command = cands[Len(tries)]
                          /\ system_info[fact]
                               \in {evidences[key].raw_output, Strip(evidences[key].raw_output),
                                    SplitWords(evidences[key].raw_output)[1]}
    /\ mode = "remote" =>
          /\ LET tries == TriesOf(<<dist_cmds[1].cmd, dist_cmds[2].cmd>>) IN
              tries # <<>> =>
                /\ InOrderUntilGood(tries, <<dist_cmds[1].cmd, dist_cmds[2].cmd>>)
                /\ tries[Len(tries)].good =>
                      /\ system_info.evidence.os_name.remote_command = dist_cmds[Len(tries)].cmd
                      /\ system_info.os = Strip(system_info.evidence.os_name.raw_output)
          /\ LET tries == TriesOf(<<version_cmds[1].cmd, version_cmds[2].cmd>>) IN
              tries # <<>> =>
                /\ InOrderUntilGood(tries, <<version_cmds[1].cmd, version_cmds[2].cmd>>)
                /\ tries[Len(tries)].good =>
                      /\ system_info.evidence.version.remote_command
                           = version_cmds[Len(tries)].cmd
                      /\ system_info.version = system_info.evidence.version.raw_output

\* a local scan where the second version candidate supplied the version
\* after the first failed, and a remote scan likewise
C19_Witness ==
    /\ mode = "local" /\ is_linux /\ Done
    /\ Len(Tries("version")) = 2 /\ ~Tries("version")[1].good /\ Tries("version")[2].good
    /\ evidences.os_version.command = CmdLsbRelease
    /\ system_info.version = <<"22.04">>

C19_WitnessRemote ==
    /\ mode = "remote" /\ Done
    /\ Len(TriesOf(<<version_cmds[1].cmd, version_cmds[2].cmd>>)) = 2
    /\ TriesOf(<<version_cmds[1].cmd, version_cmds[2].cmd>>)[2].good
    /\ system_info.evidence.version.remote_command = CmdLsbRelease
    /\ Len(TriesOf(<<dist_cmds[1].cmd, dist_cmds[2].cmd>>)) = 1

\* the commands RemoteFingerprinter probes a fact with, over all routes
RemoteCandidates(fact) ==
    CASE fact = "version" -> <<CmdSwVers, version_cmds[1].cmd, version_cmds[2].cmd,
                               CmdUnameV, CmdSysteminfo>>
      [] fact = "kernel" -> <<CmdUnameR>>
      [] fact = "cpu" -> <<CmdSysctlCpu, CmdCpuinfoRemote>>
      [] fact = "architecture" -> <<CmdUnameM>>
      [] fact = "hostname" -> <<CmdHostname>>

\* the probes logged in tries were run and every one of them failed
AllFailed(tries) == tries # <<>> /\ \A j \in 1..Len(tries) : ~tries[j].good

\* C20: when every candidate probe command for the version, the kernel, the
\* CPU, the architecture or the hostname fails, the value reported for that
\* fact is "Unknown", in the local SystemDetector and in the
\* RemoteFingerprinter, and a scan in which every system probe failed still
\* ends with a report.
C20_AllFailedIsUnknown ==
    /\ mode = "local" =>
          \A fact \in SystemFields \ {"os"} :
              (fact \in DOMAIN system_info /\ AllFailed(Tries(fact))) =>
                  system_info[fact] = Unknown
    /\ (mode = "remote" /\ ~IsEmpty(system_info)) =>
          \A fact \in SystemFields \ {"os"} :
              (pc \in {"r_config", "r_targets", "done"}
               /\ AllFailed(TriesOf(RemoteCandidates(fact)))) =>
                  system_info[fact] = Unknown
    /\ (/\ Done /\ mode \in {"local", "remote"}
        /\ AllFailed(SelectSeq(replies, LAMBDA r : r.target = 0))
        /\ config = Absent) =>
          report.kind = "report"

\* the replies logged for the system probes of the scan, in order
SystemReplies == SelectSeq(replies, LAMBDA r : r.target = 0)

\* the positions in SystemReplies of the probes that ran cmd
ProbesOf(cmd) == {k \in 1..Len(SystemReplies) : SystemReplies[k].command = cmd}

\* C21: in RemoteFingerprinter.detect_system_info the OS family is probed
\* once, by "uname -s"; when that probe fails or names a family other than
\* darwin and linux the generic-Unix probe "uname -v" is run, and the
\* Windows-style systeminfo probe is run only after a generic-Unix probe
\* that failed.
C21_WindowsProbeIsLastResort ==
    mode = "remote" =>
        /\ Cardinality(ProbesOf(CmdUnameS)) <= 1
        /\ \A k \in ProbesOf(CmdUnameS) :
               (/\ pc \in {"r_common", "r_config", "r_targets"}
                /\ \/ ~SystemReplies[k].good
                   \/ HostAnswer(env.system, CmdUnameS) \notin {<<"Darwin">>, <<"Linux">>})
               => ProbesOf(CmdUnameV) # {}
        /\ \A k \in ProbesOf(CmdSysteminfo) :
               \E j \in ProbesOf(CmdUnameV) : j < k /\ ~SystemReplies[j].good

\* the platform keys of the i-th target that have a detection command, in
\* the order darwin, linux, windows
RemoteTrials(i) ==
    SelectSeq(<<"darwin", "linux", "windows">>,
              LAMBDA p : Get(PlatformConfig(i, p), "command", <<>>) # <<>>)

\* the remote matcher appended a record for the i-th target: the last
\* probe of the target is the architecture probe
RemoteFound(i) ==
    RepliesOf(i) # <<>> /\ RepliesOf(i)[Len(RepliesOf(i))].command = CmdUnameM

\* the replies rs are those of the detection commands of the keys ps of the
\* i-th target, in order, up to and including the first that found the
\* product, followed only by that key's version probe, if it has one, and
\* the architecture probe
RECURSIVE FirstWins(_, _, _)
FirstWins(rs, ps, i) ==
    IF ps = <<>> THEN rs = <<>>
    ELSE /\ rs # <<>>
         /\ rs[1].command = PlatformConfig(i, Head(ps)).command
         /\ IF Answered(rs[1])
            THEN /\ Len(rs) = (IF Get(PlatformConfig(i, Head(ps)), "version_command", <<>>) = <<>>
                               THEN 2 ELSE 3)
                 /\ rs[Len(rs)].command = CmdUnameM
                 /\ detected_software[Cardinality({j \in 1..i : RemoteFound(j)})].installPath
                        = HeadLine(Strip(rs[1].output))
            ELSE FirstWins(Tail(rs), Tail(ps), i)

\* C22: in a remote scan the detection commands a target configures are
\* tried in the order darwin, linux, windows; the first key whose detection
\* command succeeds with non-empty output wins, no key after it is probed,
\* and every target contributes at most one record.
C22_FirstPlatformWins ==
    mode = "remote" =>
        /\ \A i \in 1..(idx - 1) : FirstWins(RepliesOf(i), RemoteTrials(i), i)
        /\ Len(detected_software) = Cardinality({i \in 1..(idx - 1) : RemoteFound(i)})

\* a remote scan ended in which a target's first configured key failed and
\* its next key, with another command, found the product
C22_Witness ==
    /\ mode = "remote" /\ Done /\ report.kind = "report"
    /\ \E i \in 1..(idx - 1) :
          /\ Len(RepliesOf(i)) >= 3
          /\ ~Answered(RepliesOf(i)[1]) /\ Answered(RepliesOf(i)[2])
          /\ RepliesOf(i)[1].command # RepliesOf(i)[2].command
          /\ RemoteFound(i)

\* the version command the local matcher has for the i-th target
LocalVersionCommand(i) == Get(PlatformConfig(i, get_platform_key), "version_command", <<>>)

\* the record the local matcher appended for the i-th target
LocalRecord(i) == detected_software[Position(i)]

\* C23: SoftwareDetector._extract_version uses one version source per
\* target. With a version command configured, that command is run and the
\* version is the first line of its output, or "Unknown" when it fails, and
\* the detection output is not pattern-matched; with none configured no
\* version command is run and the version is the match of the version
\* pattern in the detection output, or "Unknown" when there is no match.
C23_OneVersionSource ==
    mode = "local" =>
        \A i \in 1..(idx - 1) :
            LocalDetected(i) =>
                IF LocalVersionCommand(i) # <<>>
                THEN /\ Len(RepliesOf(i)) = 2
                     /\ LocalRecord(i).versionNumber =
                            (IF Answered(RepliesOf(i)[2])
                             THEN HeadLine(Strip(RepliesOf(i)[2].output))
                             ELSE Unknown)
                ELSE /\ Len(RepliesOf(i)) = 1
                     /\ LocalRecord(i).versionNumber =
                            (IF search_version(RepliesOf(i)[1].output) # <<>>
                             THEN search_version(RepliesOf(i)[1].output)
                             ELSE Unknown)

\* a local scan ended in which one target's detection output holds a
\* version, its version command failed and its version is "Unknown", and
\* another target, without version command, got the version matched in its
\* detection output
C23_Witness ==
    /\ mode = "local" /\ Done /\ report.kind = "report" /\ idx = 3
    /\ LocalDetected(1) /\ LocalDetected(2)
    /\ LocalVersionCommand(1) # <<>>
    /\ search_version(RepliesOf(1)[1].output) # <<>>
    /\ ~Answered(RepliesOf(1)[2])
    /\ LocalRecord(1).versionNumber = Unknown
    /\ LocalVersionCommand(2) = <<>>
    /\ LocalRecord(2).versionNumber = <<"1", ".", "2", ".", "3">>

\* the end of the dotted numeric version of at most n components that starts
\* at i, the longest there is; i - 1 if no number starts at i
RECURSIVE DottedEnd(_, _, _)
DottedEnd(t, i, n) ==
    IF DigitRunEnd(t, i) < i THEN i - 1
    ELSE IF /\ n > 1
            /\ DigitRunEnd(t, i) + 1 <= Len(t)
            /\ t[DigitRunEnd(t, i) + 1] = "."
            /\ DigitRunEnd(t, DigitRunEnd(t, i) + 2) >= DigitRunEnd(t, i) + 2
    THEN DottedEnd(t, DigitRunEnd(t, i) + 2, n - 1)
    ELSE DigitRunEnd(t, i)

\* the first dotted numeric version of two, three or four components that
\* occurs in t; the empty text if there is none
RECURSIVE DottedVersionFrom(_, _)
DottedVersionFrom(t, i) ==
    IF i > Len(t) THEN <<>>
    ELSE IF DottedEnd(t, i, 4) > DigitRunEnd(t, i) THEN SubSeq(t, i, DottedEnd(t, i, 4))
    ELSE DottedVersionFrom(t, i + 1)

\* C24: for a target without version command that the local matcher
\* detected, the versionNumber is the dotted numeric version of two, three or
\* four components that occurs in the detection output, and "Unknown" only
\* when the output holds no such version.
C24_DottedVersionExtracted ==
    mode = "local" =>
        \A i \in 1..(idx - 1) :
            (LocalDetected(i) /\ LocalVersionCommand(i) = <<>>) =>
                LocalRecord(i).versionNumber =
                    (IF DottedVersionFrom(RepliesOf(i)[1].output, 1) # <<>>
                     THEN DottedVersionFrom(RepliesOf(i)[1].output, 1)
                     ELSE Unknown)

\* the position among the replies of the i-th target of the detection reply
\* that found the product: the first reply that succeeded with output
WinningReply(i) ==
    CHOOSE k \in 1..Len(RepliesOf(i)) :
        Answered(RepliesOf(i)[k]) /\ \A j \in 1..(k - 1) : ~Answered(RepliesOf(i)[j])

\* the version command of the platform key that won the i-th target
RemoteVersionCommand(i) ==
    Get(PlatformConfig(i, RemoteTrials(i)[WinningReply(i)]), "version_command", <<>>)

\* the record the remote matcher appended for the i-th target
RemoteRecord(i) == detected_software[Cardinality({j \in 1..i : RemoteFound(j)})]

\* C25: in a remote scan, when the version command of a detected target is
\* configured and succeeds, the record's versionNumber is the first line of
\* the version command's output, whether the output has one line or several.
C25_RemoteVersionIsFirstLine ==
    mode = "remote" =>
        \A i \in 1..(idx - 1) :
            (/\ RemoteFound(i)
             /\ RemoteVersionCommand(i) # <<>>
             /\ Answered(RepliesOf(i)[WinningReply(i) + 1])) =>
                RemoteRecord(i).versionNumber =
                    HeadLine(Strip(RepliesOf(i)[WinningReply(i) + 1].output))

\* the matcher of this scan appended a record for the i-th target
Found(i) == IF mode = "local" THEN LocalDetected(i) ELSE RemoteFound(i)

\* the number of records appended for the targets up to the i-th
Rank(i) == Cardinality({j \in 1..i : Found(j)})

\* C26: the inventory lists the records in the order in which their targets
\* were evaluated, the order of the targets in the configuration: the
\* record of the k-th detected target is the k-th record, so a target
\* configured earlier appears earlier, and the software_inventory of the
\* report is that list, nothing reordered, dropped or added.
C26_InventoryInConfigurationOrder ==
    mode \in {"local", "remote"} =>
        /\ pc \in {"l_targets", "r_targets"} =>
               software_targets = Get(config, "software_targets", <<>>)
        /\ Len(detected_software) = Rank(idx - 1)
        /\ \A i \in 1..(idx - 1) :
               Found(i) =>
                   /\ detected_software[Rank(i)].productName =
                          Get(software_targets[i].fields, "name", "Unknown")
                   /\ detected_software[Rank(i)].evidence.detection.raw_output =
                          RepliesOf(i)[IF mode = "local" THEN 1 ELSE WinningReply(i)].output
        /\ report.kind = "report" => report.software_inventory = detected_software

\* a local scan returned a report with the records of two targets of
\* different names, both detected
C26_Witness ==
    /\ mode = "local" /\ report.kind = "report"
    /\ Len(report.software_inventory) = 2
    /\ report.software_inventory[1].productName # report.software_inventory[2].productName
    /\ Found(1) /\ Found(2)

\* the same for a remote scan
C26_WitnessRemote ==
    /\ mode = "remote" /\ report.kind = "report"
    /\ Len(report.software_inventory) = 2
    /\ report.software_inventory[1].productName # report.software_inventory[2].productName
    /\ Found(1) /\ Found(2)

\* what a record says about the product
RecordFacts(rec) ==
    [productName |-> rec.productName, versionNumber |-> rec.versionNumber,
     architecture |-> rec.architecture, productFamily |-> rec.productFamily,
     vendor |-> rec.vendor, installPath |-> rec.installPath,
     detection |-> rec.evidence.detection.raw_output]

\* the common part of a record: what the target configures and what its
\* detection command printed
OwnFacts(target, output, version, architecture, family) ==
    [productName |-> Get(target.fields, "name", "Unknown"), versionNumber |-> version,
     architecture |-> architecture, productFamily |-> family,
     vendor |-> Get(target.fields, "vendor", "Unknown"),
     installPath |-> HeadLine(Strip(output)), detection |-> output]

\* what the local matcher makes of a target given the replies own to the
\* target's own probes: no record or one record
LocalOutcome(target, own) ==
    IF target.json # "object" \/ own = <<>> \/ ~Answered(own[1]) THEN <<>>
    ELSE <<OwnFacts(target, own[1].output,
                    IF Len(own) = 2
                    THEN (IF Answered(own[2]) THEN HeadLine(Strip(own[2].output)) ELSE Unknown)
                    ELSE IF search_version(own[1].output) # <<>>
                    THEN search_version(own[1].output) ELSE Unknown,
                    platform.machine,
                    normalize_product_family(Get(target.fields, "family", "Unknown")))>>

\* the first reply of own that succeeded with output; 0 if there is none
FirstAnswered(own) ==
    IF \E k \in 1..Len(own) : Answered(own[k])
    THEN CHOOSE k \in 1..Len(own) : Answered(own[k]) /\ \A j \in 1..(k - 1) : ~Answered(own[j])
    ELSE 0

\* what the remote matcher makes of a target given the replies to the
\* target's own probes: detection probes up to the first that found the
\* product, its version probe if it has one, the architecture probe
RemoteOutcome(target, own) ==
    IF target.json # "object" \/ FirstAnswered(own) = 0 THEN <<>>
    ELSE <<OwnFacts(target, own[FirstAnswered(own)].output,
                    IF Len(own) = FirstAnswered(own) + 2
                          /\ Answered(own[FirstAnswered(own) + 1])
                    THEN Strip(own[FirstAnswered(own) + 1].output) ELSE Unknown,
                    IF own[Len(own)].success THEN Strip(own[Len(own)].output) ELSE Unknown,
                    Get(target.fields, "family", "Unknown"))>>

\* the evaluation of target left the records before alone and added the
\* records added, which are what the matcher makes of the target and the
\* replies own to its own probes
IndependentStep(target, own, before, after) ==
    /\ Len(after) >= Len(before)
    /\ SubSeq(after, 1, Len(before)) = before
    /\ [k \in 1..(Len(after) - Len(before)) |-> RecordFacts(after[Len(before) + k])]
           = (IF mode = "local" THEN LocalOutcome(target, own) ELSE RemoteOutcome(target, own))

\* C27: target evaluations share no mutable state. Every evaluation of a
\* target, in detect_all and in _detect_remote_software, leaves the records
\* of the other targets, the target list and the executor as they were, and
\* the record it adds, or its adding none, is determined by the target and
\* the outcomes of the target's own probes alone, whatever was evaluated
\* before it.
C27_EvaluationsIndependent ==
    [][idx' = idx + 1 =>
          /\ IndependentStep(software_targets[idx],
                             SubSeq(replies', Len(replies) + 1, Len(replies')),
                             detected_software, detected_software')
          /\ remote_executor' = remote_executor
          /\ software_targets' = software_targets]_vars

\* a remote scan evaluated the same target twice, the second time with a
\* record already in the inventory, and the two records are equal
C27_Witness ==
    /\ mode = "remote" /\ Done /\ report.kind = "report"
    /\ idx = 3 /\ software_targets[1] = software_targets[2]
    /\ Found(1) /\ Found(2)
    /\ Len(RepliesOf(1)) = 3
    /\ detected_software[1] = detected_software[2]

\* how many times the sentinel probe is among the commands cmds handed to ssh
SentinelRuns(cmds) == Len(SelectSeq(cmds, LAMBDA c : c = CmdSentinel))

\* C28: once connect() has succeeded the connected flag stays true: no step
\* that runs a probe, whatever the probe returns, clears it (the one step
\* that clears it is __exit__, which runs no command), and while the flag is
\* true execute_command does not re-issue the sentinel probe (only an
\* explicit call of connect() runs it again).
C28_ConnectedStaysTrue ==
    [][remote_executor.connected =>
          /\ ~remote_executor'.connected =>
                 (mode = "transport" /\ issued' = issued /\ replies' = replies)
          /\ SentinelRuns(issued') # SentinelRuns(issued) =>
                 (mode = "transport" /\ replies'[Len(replies')].call = "connect")]_vars

\* a remote scan connected, then every system probe failed, and the scan
\* ended with the executor still connected and the sentinel run once
C28_Witness ==
    /\ mode = "remote" /\ Done /\ report.kind = "report"
    /\ remote_executor.connected
    /\ Len(SystemReplies) >= 5 /\ AllFailed(SystemReplies)
    /\ SentinelRuns(issued) = 1

\* the i-th target was evaluated, its detection command found the product
\* and the version command run next failed, timed out or printed nothing;
\* k is the position of the detection reply among the target's replies
VersionProbeFailed(i, k) ==
    /\ k < Len(RepliesOf(i))
    /\ Answered(RepliesOf(i)[k])
    /\ \A j \in 1..(k - 1) : ~Answered(RepliesOf(i)[j])
    /\ RepliesOf(i)[k + 1].command # CmdUnameM
    /\ ~Answered(RepliesOf(i)[k + 1])

\* C29: a failing version probe does not drop a detected target. In the
\* local and in the remote matcher, when the detection command of a target
\* succeeded with output and its version command failed, timed out or
\* printed nothing, a record of the target is in the inventory and its
\* versionNumber is "Unknown".
C29_FailedVersionProbeKeepsRecord ==
    mode \in {"local", "remote"} =>
        \A i \in 1..(idx - 1) : \A k \in 1..Len(RepliesOf(i)) :
            VersionProbeFailed(i, k) =>
                /\ Found(i)
                /\ Rank(i) <= Len(detected_software)
                /\ detected_software[Rank(i)].productName =
                       Get(software_targets[i].fields, "name", "Unknown")
                /\ detected_software[Rank(i)].installPath =
                       HeadLine(Strip(RepliesOf(i)[k].output))
                /\ detected_software[Rank(i)].versionNumber = Unknown

\* a local scan ended with a report that holds a record of a target whose
\* version command timed out
C29_Witness ==
    /\ mode = "local" /\ Done /\ report.kind = "report"
    /\ \E i \in 1..(idx - 1) :
          /\ VersionProbeFailed(i, 1)
          /\ RepliesOf(i)[2].output = <<"Command timed out after 30 seconds">>
          /\ report.software_inventory[Rank(i)].versionNumber = Unknown

\* the same for a remote scan, the version command failing with an exit
\* status other than 0
C29_WitnessRemote ==
    /\ mode = "remote" /\ Done /\ report.kind = "report"
    /\ \E i \in 1..(idx - 1) :
          /\ VersionProbeFailed(i, 1)
          /\ RepliesOf(i)[2].output # <<>>
          /\ report.software_inventory[Rank(i)].versionNumber = Unknown

\* C30: in SoftwareDetector.detect_all the failure count is the number of
\* evaluated entries for which detect_software raised, and detect_software
\* raises only for an entry that is not a mapping; so while the evaluated
\* targets are all mappings the count is 0, whatever their probes did:
\* failed probes, timeouts and targets not applicable to the platform are
\* not counted.
C30_FailureCountOnlyCountsRaises ==
    mode = "local" =>
        /\ failed_count = Cardinality({i \in 1..(idx - 1) : software_targets[i].json # "object"})
        /\ AllMappings => failed_count = 0

\* a local scan of two mappings ended with a report: running the first
\* target's detection command raised inside execute_command, the second
\* target is not applicable to the platform, and the failure count is 0
C30_Witness ==
    /\ mode = "local" /\ Done /\ report.kind = "report"
    /\ Len(software_targets) = 2 /\ AllMappings
    /\ LocalFailed(1)
    /\ RepliesOf(1)[1].output = <<"Error executing command:", SP, "OSError">>
    /\ NotApplicable(2)
    /\ failed_count = 0

====
